---- MODULE Spec2Model ----
(***************************************************************************)
(* Model of the streaming translation executor (src/src/server/stream.ts)  *)
(* together with the translation client (src/src/server/openai.ts) and     *)
(* the rich-text translation plan (createLexicalTranslationPlan).          *)
(*                                                                         *)
(* JSON values are tagged records: k is the JavaScript kind of the value.  *)
(* Objects are functions from key strings to values, arrays are sequences  *)
(* (JavaScript position p is sequence index p + 1), a hole of a sparse     *)
(* array is Undef.  A path is the sequence of its '.'-separated segments.  *)
(***************************************************************************)
EXTENDS Integers, Sequences, FiniteSets, TLC

VARIABLES
    request,     \* input.locales: sequence of [code, chunks, overrides]
    translator,  \* "mock": openAiTranslateTexts is the test double; "openai": the real client
    pc,          \* position of the generator
    li,          \* position in request of the locale entry being processed (1-based)
    ci,          \* position of the current chunk in the entry's chunks (1-based)
    oi,          \* position of the current override (1-based)
    baseDoc,     \* the source-locale document (Null when it could not be used)
    localeData,  \* working copy written for the current locale
    completed,   \* the locale's progress counter
    events,      \* the events yielded so far
    calls,       \* store and translation calls issued so far, with their outcome
    wlog         \* the setValueAtPath calls of the last step that wrote: before, path, value, after

VARIABLES
    pendingReview,  \* the review state of the translate button: [items, locales], or Null
    selections      \* what the last prepareLocalesForTranslation returned

VARIABLES
    input,   \* the arguments of the function under study
    output   \* what the last call of the function returned, Null before the first call

VARIABLES
    bulkRequest,  \* the bulk request: [localization, collections]
    bulkPc,       \* position of generateBulkEvents
    collIndex,    \* position of the collection in validCollections (1-based)
    page,         \* the page of the collection being loaded
    results,      \* the page loaded last: [docs, totalPages]
    docIndex,     \* position of the document in the page (1-based)
    translation,  \* the events streamTranslations has still to yield for the document
    tally,        \* the counters of the run and of the collection
    bulkEvents,   \* the events enqueued on the response stream so far
    bulkCalls,    \* the store, review and translation calls issued so far
    closed        \* the response stream is closed

\* the variables of streamTranslations
streamVars == <<request, translator, pc, li, ci, oi, baseDoc, localeData, completed, events, calls, wlog>>

\* the variables of the review state of the translate button
reviewVars == <<pendingReview, selections>>

\* the variables of a function application
callVars == <<input, output>>

\* the variables of the bulk orchestrator
bulkVars == <<bulkRequest, bulkPc, collIndex, page, results, docIndex, translation, tally,
              bulkEvents, bulkCalls, closed>>

\* the variables the executor does not touch
notStream == <<reviewVars, callVars, bulkVars>>

\* the variables the bulk orchestrator does not touch
notBulk == <<streamVars, reviewVars, callVars>>

vars == <<streamVars, reviewVars, callVars, bulkVars>>

----------------------------------------------------------------------------
(* JSON values *)

Undef == [k |-> "undef"]
Null == [k |-> "null"]
Str(s) == [k |-> "str", s |-> s]
Obj(f) == [k |-> "obj", f |-> f]
Arr(a) == [k |-> "arr", a |-> a]

EmptyRecord == [x \in {} |-> Undef]

\* typeof v === 'object' && v !== null && !Array.isArray(v)
IsPlainObject(v) == v.k = "obj"

\* v[key] of an object, undefined when the key is absent or v is no object
Get(v, key) == IF v.k = "obj" /\ key \in DOMAIN v.f THEN v.f[key] ELSE Undef

\* record[key] = val on a shallow copy
Put(f, key, val) == [x \in DOMAIN f \cup {key} |-> IF x = key THEN val ELSE f[x]]

\* delete record[key] on a shallow copy
Delete(f, key) == [x \in DOMAIN f \ {key} |-> f[x]]

\* JavaScript truthiness of the values the model holds
Truthy(v) ==
    CASE v.k = "undef" -> FALSE
      [] v.k = "null" -> FALSE
      [] v.k = "str" -> v.s # ""
      [] OTHER -> TRUE

\* The decimal segments the model uses, in order: IndexSegments[p + 1] is position p.
IndexSegments == <<"0", "1", "2">>

\* /^\d+$/.test(segment)
IsIndex(segment) == \E p \in DOMAIN IndexSegments : IndexSegments[p] = segment

\* Number(segment) for a decimal segment
NumberOf(segment) == (CHOOSE p \in DOMAIN IndexSegments : IndexSegments[p] = segment) - 1

\* targetArray[position] = v on a copy: positions past the end leave holes
SetAt(a, position, v) ==
    [p \in 1..(IF Len(a) > position THEN Len(a) ELSE position + 1) |->
        IF p = position + 1 THEN v
        ELSE IF p <= Len(a) THEN a[p] ELSE Undef]

\* String.prototype.trim on the strings of the model: only " " carries whitespace
Trim(s) == IF s = " " THEN "" ELSE s

RECURSIVE JoinSpace(_)
\* parts.join(' ')
JoinSpace(parts) ==
    IF parts = <<>> THEN ""
    ELSE IF Len(parts) = 1 THEN parts[1]
    ELSE parts[1] \o " " \o JoinSpace(Tail(parts))

RECURSIVE Flatten(_)
\* plans.flatMap(...) / concatenation of a sequence of sequences
Flatten(seqs) == IF seqs = <<>> THEN <<>> ELSE Head(seqs) \o Flatten(Tail(seqs))

RECURSIVE SumLen(_)
SumLen(seqs) == IF seqs = <<>> THEN 0 ELSE Len(Head(seqs)) + SumLen(Tail(seqs))

Last(s) == s[Len(s)]

----------------------------------------------------------------------------
(* getValueAtPath (utils/localizedFields) and setValueAtPath (stream.ts) *)

RECURSIVE getValueAtPath(_, _)
getValueAtPath(data, path) ==
    IF path = <<>> THEN data
    ELSE IF data.k \in {"undef", "null"} THEN Undef
    ELSE LET part == Head(path) IN
        IF IsIndex(part) THEN
            IF data.k # "arr" \/ Len(data.a) <= NumberOf(part) THEN Undef
            ELSE getValueAtPath(data.a[NumberOf(part) + 1], Tail(path))
        ELSE IF data.k = "obj" THEN getValueAtPath(Get(data, part), Tail(path))
        ELSE Undef

\* stream.ts 58-73: nothing is carried over
CarryBlockTypeNever(applied, nextOrig) == applied

\* stream.ts 58-73: a plain object written at an array position takes the blockType
\* of the source element when it has none of its own
CarryBlockType(applied, nextOrig) ==
    IF /\ Truthy(applied)
       /\ applied.k = "obj"
       /\ Truthy(nextOrig)
       /\ nextOrig.k \in {"obj", "arr"}
       /\ Truthy(Get(nextOrig, "blockType"))
       /\ ~Truthy(Get(applied, "blockType"))
    THEN Obj(Put(applied.f, "blockType", Get(nextOrig, "blockType")))
    ELSE applied

RECURSIVE apply(_, _, _, _)
apply(origBranch, current, segments, value) ==
    IF segments = <<>> THEN value
    ELSE LET segment == Head(segments) IN
        IF IsIndex(segment) THEN
            LET position == NumberOf(segment)
                targetArray == IF current.k = "arr" THEN current.a ELSE <<>>
                nextOrig == IF origBranch.k = "arr" /\ Len(origBranch.a) > position
                            THEN origBranch.a[position + 1] ELSE Undef
                existing == IF Len(targetArray) > position
                            THEN targetArray[position + 1] ELSE Undef
                applied == apply(nextOrig, existing, Tail(segments), value)
            IN Arr(SetAt(targetArray, position, CarryBlockType(applied, nextOrig)))
        ELSE
            LET targetRecord == IF current.k = "obj" THEN current.f ELSE EmptyRecord
                nextOrig == IF origBranch.k = "obj" THEN Get(origBranch, segment) ELSE Undef
            IN Obj(Put(targetRecord, segment,
                       apply(nextOrig, Get(Obj(targetRecord), segment), Tail(segments), value)))

setValueAtPath(original, source, path, value) == apply(original, source, path, value)

----------------------------------------------------------------------------
(* Rich-text values: utils/lexical.ts and createLexicalTranslationPlan.     *)
(* A node keeps its type, text and children; the constant formatting fields *)
(* of createTextNode / createParagraph are left out.                        *)

createTextNode(text) == Obj([type |-> Str("text"), text |-> Str(text)])

createParagraph(children) == Obj([type |-> Str("paragraph"), children |-> Arr(children)])

LexicalOf(children) == Obj([root |-> Obj([type |-> Str("root"), children |-> Arr(children)])])

isLexicalValue(value) ==
    /\ value.k \in {"obj", "arr"}
    /\ Get(value, "root").k \in {"obj", "arr"}
    /\ Get(Get(value, "root"), "type") = Str("root")

\* createFallbackLexical for a text without blank lines: one paragraph, empty when
\* the trimmed text is empty
createFallbackLexical(text) ==
    LexicalOf(<<createParagraph(IF Trim(text) = "" THEN <<>> ELSE <<createTextNode(Trim(text))>>)>>)

\* toLexical(text) without template, for a text that holds no [[LEX-n]] marker
toLexical(text) == createFallbackLexical(text)

RECURSIVE collectNode(_)
RECURSIVE collectChildren(_)
\* collectLexicalTextNodes: visit(node)
collectNode(node) ==
    IF node.k # "obj" THEN <<>>
    ELSE (IF Get(node, "type") = Str("text") /\ Get(node, "text").k = "str"
          THEN <<Get(node, "text").s>> ELSE <<>>)
         \o (IF Get(node, "children").k = "arr"
             THEN collectChildren(Get(node, "children").a) ELSE <<>>)

collectChildren(children) ==
    IF children = <<>> THEN <<>>
    ELSE collectNode(Head(children)) \o collectChildren(Tail(children))

collectLexicalTextNodes(value) == collectNode(Get(value, "root"))

RECURSIVE mapNode(_, _)
RECURSIVE mapChildren(_, _)
\* mapLexicalTextNodes with the updater of createLexicalTranslationPlan: the i-th text
\* node takes translated[i] ?? ''.  Returns the node and the translations left.
mapNode(node, translated) ==
    IF node.k # "obj" THEN [node |-> node, rest |-> translated]
    ELSE LET isText == Get(node, "type") = Str("text") /\ Get(node, "text").k = "str"
             n1 == IF isText
                   THEN Obj(Put(node.f, "text",
                                Str(IF translated = <<>> THEN "" ELSE Head(translated))))
                   ELSE node
             t1 == IF isText /\ translated # <<>> THEN Tail(translated) ELSE translated
             ch == Get(n1, "children")
         IN IF ch.k = "arr"
            THEN LET r == mapChildren(ch.a, t1)
                 IN [node |-> Obj(Put(n1.f, "children", Arr(r.nodes))), rest |-> r.rest]
            ELSE [node |-> n1, rest |-> t1]

mapChildren(children, translated) ==
    IF children = <<>> THEN [nodes |-> <<>>, rest |-> translated]
    ELSE LET h == mapNode(Head(children), translated)
             t == mapChildren(Tail(children), h.rest)
         IN [nodes |-> <<h.node>> \o t.nodes, rest |-> t.rest]

mapLexicalTextNodes(value, translated) ==
    Obj(Put(value.f, "root", mapNode(Get(value, "root"), translated).node))

\* The plan of one item of a chunk (stream.ts 169-191, createLexicalTranslationPlan):
\* the segments it sends and how the translated slice becomes the value written.
PlanOf(item, base) ==
    IF ~item.lexical
    THEN [kind |-> "plain", segments |-> <<item.text>>, text |-> item.text, value |-> Undef]
    ELSE LET originalValue == IF base.k = "obj" THEN getValueAtPath(base, item.path) ELSE Undef
         IN IF isLexicalValue(originalValue)
            THEN IF collectLexicalTextNodes(originalValue) = <<>>
                 THEN [kind |-> "join", segments |-> <<item.text>>, text |-> item.text,
                       value |-> originalValue]
                 ELSE [kind |-> "tree", segments |-> collectLexicalTextNodes(originalValue),
                       text |-> item.text, value |-> originalValue]
            ELSE [kind |-> "first", segments |-> <<item.text>>, text |-> item.text,
                  value |-> Undef]

\* the fallback of createLexicalTranslationPlan: toLexical(join(' ').trim() || fallbackText)
JoinFallback(plan, translated) ==
    LET next == IF translated = <<>> THEN "" ELSE Trim(JoinSpace(translated))
    IN toLexical(IF next = "" THEN plan.text ELSE next)

\* stream.ts 172-174: a plain item takes the first translated segment, the untranslated
\* text is written instead
PlainApplySource(text, translated) == Str(text)

\* stream.ts 172-174: translated[0] ?? item.text
PlainApply(text, translated) == Str(IF translated = <<>> THEN text ELSE translated[1])

\* cloneLexicalValue handing back the value itself: the nodes of the copy are the
\* nodes of the source document
cloneLexicalByReference(value) == [copy |-> value, shared |-> TRUE]

\* cloneLexicalValue (handler.ts 241-247): structuredClone, or a JSON round trip; the
\* copy shares no node with the value
cloneLexicalValue(value) == [copy |-> value, shared |-> FALSE]

\* plan.apply(slice)
PlanApply(plan, translated) ==
    CASE plan.kind = "plain" -> PlainApply(plan.text, translated)
      [] plan.kind = "first" -> toLexical(IF translated = <<>> THEN plan.text ELSE translated[1])
      [] plan.kind = "join" -> JoinFallback(plan, translated)
      [] OTHER -> IF Len(translated) # Len(plan.segments)
                  THEN JoinFallback(plan, translated)
                  ELSE mapLexicalTextNodes(cloneLexicalValue(plan.value).copy, translated)

PlansOf(chunk, base) == [i \in DOMAIN chunk |-> PlanOf(chunk[i], base)]

TextsOf(plans) == Flatten([i \in DOMAIN plans |-> plans[i].segments])

\* htmlToLexicalValue: the HTML converter is an external library; the model keeps the
\* trimmed text as one paragraph, as the function's own fallback does
htmlToLexicalValue(html) == toLexical(Trim(html))

----------------------------------------------------------------------------
(* The translation client *)

\* coerceString (openai.ts 20-35)
coerceString(value) ==
    CASE value.k \in {"undef", "null"} -> ""
      [] value.k = "str" -> value.s
      [] value.k = "num" -> ToString(value.n)
      [] OTHER -> "{}"

\* openAiTranslateTexts after the provider answered with the list t (openai.ts 86-91)
openAiTranslateTexts(inputs, t) ==
    IF Len(t) # Len(inputs) THEN inputs
    ELSE [i \in DOMAIN t |-> coerceString(t[i])]

\* What a translator answers for a text: the model's stand-in for the language model
Translated(text, to) == to \o ":" \o text

\* A list of m answers to texts: the first Len(texts) are translations
Answers(texts, to, m) ==
    [i \in 1..m |-> IF i <= Len(texts) THEN Translated(texts[i], to) ELSE "extra"]

\* The numbers of entries the test double's answer to n texts may hold: one less, n,
\* one more
AnswerCounts(n) == {m \in {n - 1, n, n + 1} : m >= 0}

\* The numbers of entries the provider's answer to n texts may hold: one less, or n
ProviderCounts(n) == {m \in {n - 1, n} : m >= 0}

\* The outcomes of await openAiTranslateTexts(texts, from, locale) as stream.ts sees
\* them: ok = it did not throw, list = what it returned, raw = the number of
\* entries of the provider's answer (-1 when no provider answer is involved: the
\* test double, a throw, or no text to send, openai.ts 54-56).
TranslateOutcomes(mode, texts, to) ==
    IF mode = "mock"
    THEN {[ok |-> FALSE, list |-> <<>>, raw |-> -1]}
         \cup {[ok |-> TRUE, list |-> Answers(texts, to, m), raw |-> -1] :
                  m \in AnswerCounts(Len(texts))}
    ELSE IF texts = <<>>
    THEN {[ok |-> TRUE, list |-> <<>>, raw |-> -1]}
    ELSE {[ok |-> FALSE, list |-> <<>>, raw |-> -1]}
         \cup {[ok |-> TRUE,
                list |-> openAiTranslateTexts(texts,
                            [i \in 1..m |-> Str(Answers(texts, to, m)[i])]),
                raw |-> m] : m \in ProviderCounts(Len(texts))}

----------------------------------------------------------------------------
(* Inputs: requests, and what the document store can answer *)

\* the largest number of locale entries of a request
MaxLocales == 2

\* input.from
FromLocale == "en"

ItemTitle == [path |-> <<"title">>, text |-> "Hello", lexical |-> FALSE]
ItemHero == [path |-> <<"layout", "0", "title">>, text |-> "Hi", lexical |-> FALSE]
ItemCta == [path |-> <<"layout", "1", "title">>, text |-> "Go", lexical |-> FALSE]
ItemBody == [path |-> <<"body">>, text |-> "One Two", lexical |-> TRUE]
ItemNumeric == [path |-> <<"0", "title">>, text |-> "Hello", lexical |-> FALSE]
ItemTitleAgain == [path |-> <<"title">>, text |-> "World", lexical |-> FALSE]
OverrideTitle == [path |-> <<"title">>, text |-> "Hallo", lexical |-> FALSE]
OverrideBody == [path |-> <<"body">>, text |-> "<p>Hallo</p>", lexical |-> TRUE]

\* The chunks and overrides a locale entry may carry
Selections ==
    { [chunks |-> <<>>, overrides |-> <<>>],
      [chunks |-> <<<<>>>>, overrides |-> <<>>],
      [chunks |-> <<<<ItemTitle>>>>, overrides |-> <<>>],
      [chunks |-> <<<<ItemTitle, ItemHero>>>>, overrides |-> <<>>],
      [chunks |-> <<<<ItemCta>>, <<ItemBody>>>>, overrides |-> <<OverrideTitle>>],
      [chunks |-> <<<<ItemNumeric>>>>, overrides |-> <<>>],
      [chunks |-> <<<<ItemTitle, ItemTitleAgain>>>>, overrides |-> <<>>],
      [chunks |-> <<<<>>>>, overrides |-> <<OverrideBody>>] }

\* The selection the second locale code is requested with
FewSelections ==
    { [chunks |-> <<<<ItemTitle>>>>, overrides |-> <<>>] }

Entries ==
    { [code |-> "nl", chunks |-> s.chunks, overrides |-> s.overrides] : s \in Selections }
    \cup { [code |-> "de", chunks |-> s.chunks, overrides |-> s.overrides] : s \in FewSelections }

Requests == UNION { [1..n -> Entries] : n \in 0..MaxLocales }

\* The source-locale document of the store
BaseDocument ==
    Obj([id |-> Str("1"),
         title |-> Str("Hello"),
         layout |-> Arr(<<Obj([blockType |-> Str("hero"), title |-> Str("Hi")]),
                          Obj([blockType |-> Str("cta"), title |-> Str("Go")])>>),
         body |-> LexicalOf(<<createParagraph(<<createTextNode("One"),
                                                  createTextNode("Two")>>)>>)])

\* The locale documents the store may hold before the run
LocaleDocuments ==
    { Obj([id |-> Str("1"),
           _id |-> Str("a1"),
           createdAt |-> Str("2023"),
           updatedAt |-> Str("2024"),
           slug |-> Str("oud"),
           title |-> Str("Oud"),
           layout |-> Arr(<<Obj([blockType |-> Str("cta"), title |-> Str("Oud")]),
                            Obj([title |-> Str("Oud")])>>)]) }

\* stream.ts 23-25 counting the batches instead of their items
countChunks(chunks) == Len(chunks)

\* countItems, countOverrides, countLocalesItems (stream.ts 23-36)
countItems(chunks) == SumLen(chunks)

countOverrides(entries) == Len(entries)

RECURSIVE countLocalesItems(_)
countLocalesItems(locales) ==
    IF locales = <<>> THEN 0
    ELSE countItems(Head(locales).chunks) + countOverrides(Head(locales).overrides)
         + countLocalesItems(Tail(locales))

\* parseBody (handler.ts 54-93) accepts the locale list of a body: a non-empty list of
\* entries with a non-empty code; the items of the model are all well-formed
parseBodyAccepts(locales) ==
    /\ Len(locales) > 0
    /\ \A i \in DOMAIN locales : locales[i].code # ""

----------------------------------------------------------------------------
(* Events and calls *)

Event(type, locale, entry, done, total, message) ==
    [type |-> type, locale |-> locale, entry |-> entry, completed |-> done,
     total |-> total, message |-> message]

ErrorEvent(entry, message) == Event("error", "", entry, 0, 0, message)

\* A call as it is issued: at is the number of events yielded before it
Call(op, locale, entry, texts, data) ==
    [op |-> op, locale |-> locale, entry |-> entry, at |-> Len(events), ret |-> -1,
     status |-> "pending", texts |-> texts, result |-> <<>>, raw |-> -1, data |-> data,
     overrideAccess |-> (op = "update")]

\* The last call returns
Returned(status, result, raw) ==
    [calls EXCEPT ![Len(calls)].status = status,
                  ![Len(calls)].ret = Len(events),
                  ![Len(calls)].result = result,
                  ![Len(calls)].raw = raw]

\* The data of the successful updates of a locale code, in order
Written(code) ==
    SelectSeq(calls, LAMBDA c : c.op = "update" /\ c.status = "ok" /\ c.locale = code)

\* What findByID may answer for a locale: a throw, a document the store held before
\* the run, or the document this run wrote last
LocaleOutcomes(code) ==
    {[ok |-> FALSE, doc |-> Null]}
    \cup {[ok |-> TRUE, doc |-> d] : d \in LocaleDocuments}
    \cup (IF Written(code) = <<>> THEN {}
          ELSE {[ok |-> TRUE, doc |-> Obj(Put(Last(Written(code)).data.f, "id", Str("1")))]})

\* What findByID may answer for the source locale
BaseOutcomes ==
    {[ok |-> FALSE, doc |-> Null], [ok |-> TRUE, doc |-> Null], [ok |-> TRUE, doc |-> BaseDocument]}

----------------------------------------------------------------------------
(* streamTranslations (stream.ts 95-292) *)

\* stream.ts 148-149: localeTotalItems of an entry
LocaleTotal(entry) == countItems(entry.chunks) + Len(entry.overrides)

\* cloneLocaleData (stream.ts 15-21): structuredClone, or a JSON round trip; the copy
\* shares nothing with the document
cloneLocaleData(value) == [copy |-> value, shared |-> FALSE]

\* the fields stream.ts 161-164 delete
IdentityFields == <<"id", "_id", "createdAt", "updatedAt">>

\* stream.ts 155-164: the clone of the existing locale document, or {}, without the
\* identity and timestamp fields
StripIdentity(existing) ==
    LET data == IF existing.k = "obj" THEN cloneLocaleData(existing).copy.f ELSE EmptyRecord
    IN Obj(Delete(Delete(Delete(Delete(data, "id"), "_id"), "createdAt"), "updatedAt"))

\* stream.ts 161-164: the fields the delete statements remove from the document
\* findByID returned, which is the case when the working copy is that very object
DeletedFromLoaded(existing) ==
    IF existing.k = "obj" /\ cloneLocaleData(existing).shared
    THEN SelectSeq(IdentityFields, LAMBDA key : key \in DOMAIN existing.f)
    ELSE <<>>

\* stream.ts 207: only a shorter answer is refused
LengthMismatchShorter(translated, texts) == Len(translated) < Len(texts)

\* stream.ts 207: translated.length !== texts.length
LengthMismatch(translated, texts) == Len(translated) # Len(texts)

\* stream.ts 247: one per chunk
NextCompletedByOne(done, chunk) == done + 1

\* stream.ts 247: completed += chunk.length
NextCompleted(done, chunk) == done + Len(chunk)

\* stream.ts 262-265 without the return: control falls through to the update
AfterShapeErrorFallThrough == "update"

\* stream.ts 264: return after the shape error
AfterShapeError == "returned"

\* stream.ts 275-282 without the return: control falls through to the applied event
AfterUpdateErrorFallThrough == "applied"

\* stream.ts 281: return after the failed update
AfterUpdateError == "returned"

\* translated.slice(cursor, cursor + count)
Slice(translated, cursor, count) ==
    IF cursor >= Len(translated) THEN <<>>
    ELSE SubSeq(translated, cursor + 1,
                IF cursor + count > Len(translated) THEN Len(translated) ELSE cursor + count)

\* stream.ts 225-238: the value written for an item from its slice
ItemValue(item, plan, slice) ==
    LET nextValue == PlanApply(plan, slice)
        fallbackText == IF slice = <<>> THEN "" ELSE Trim(JoinSpace(slice))
    IN IF item.lexical /\ ~isLexicalValue(nextValue)
       THEN toLexical(IF fallbackText = "" THEN item.text ELSE fallbackText)
       ELSE nextValue

Write(base, data, path, value) ==
    [before |-> data, path |-> path, value |-> value,
     after |-> setValueAtPath(base, data, path, value)]

\* stream.ts 224 advancing by one segment per item
NextCursorByOne(cursor, segmentCount) == cursor + 1

\* stream.ts 224: cursor += segmentCount
NextCursor(cursor, segmentCount) == cursor + segmentCount

\* stream.ts 241: the condition of the 'cursor mismatch' warning
CursorMismatch(cursor, translated) == cursor # Len(translated)

RECURSIVE ChunkWrites(_, _, _, _, _, _)
\* stream.ts 218-239: the writes of the items of a chunk from position index on, each
\* with the slice its plan was applied to and the cursor behind that slice
ChunkWrites(base, data, chunk, translated, index, cursor) ==
    IF index > Len(chunk) THEN <<>>
    ELSE LET item == chunk[index]
             plan == PlanOf(item, base)
             segmentCount == Len(plan.segments)
             slice == Slice(translated, cursor, segmentCount)
             w == Write(base, data, item.path, ItemValue(item, plan, slice))
         IN <<[before |-> w.before, path |-> w.path, value |-> w.value, after |-> w.after,
               slice |-> slice, cursor |-> NextCursor(cursor, segmentCount)]>>
            \o ChunkWrites(base, w.after, chunk, translated, index + 1,
                           NextCursor(cursor, segmentCount))

\* handler.ts 340-349: mapLexicalTextNodes assigns node.text of the nodes of `cloned`;
\* they are nodes of the source document when the clone shares them
SourceAfterApply(base, item, plan, slice) ==
    IF /\ plan.kind = "tree"
       /\ Len(slice) = Len(plan.segments)
       /\ cloneLexicalValue(plan.value).shared
    THEN apply(base, base, item.path, mapLexicalTextNodes(plan.value, slice))
    ELSE base

RECURSIVE SourceAfter(_, _, _, _, _)
\* stream.ts 218-239: the source document after plan.apply ran for the items of a chunk
\* from position index on; the plans were made before the first of them ran
SourceAfter(base, plans, chunk, translated, index) ==
    IF index > Len(chunk) THEN base
    ELSE LET cursor == SumLen([i \in 1..(index - 1) |-> plans[i].segments])
             slice == Slice(translated, cursor, Len(plans[index].segments))
         IN SourceAfter(SourceAfterApply(base, chunk[index], plans[index], slice),
                        plans, chunk, translated, index + 1)

\* yield {type: 'error', message} and leave the position li: a failure restarts the
\* locale loop
FailAndRestart(message, after) ==
    /\ events' = Append(events, ErrorEvent(li, message))
    /\ pc' = "localeLoop"
    /\ li' = 1

\* yield {type: 'error', message}, then the statement that follows in the code
Fail(message, after) ==
    /\ events' = Append(events, ErrorEvent(li, message))
    /\ pc' = after
    /\ li' = li

\* the catch block of payload.update with `continue` in place of `return`: the error
\* is yielded and the loop goes on with the next locale entry
UpdateFailureContinue(locale) ==
    /\ events' = Append(events, ErrorEvent(li, "Failed to update locale " \o locale))
    /\ pc' = "localeLoop"
    /\ li' = li + 1

\* stream.ts 275-282: the catch block of payload.update yields the error and returns
UpdateFailure(locale) ==
    Fail("Failed to update locale " \o locale, AfterUpdateError)

\* the catch block of the source document's load swallowing the error, as the one of
\* the locale's load does (stream.ts 145-147): the run goes on without source document
BaseLoadFailureTolerated ==
    /\ events' = events
    /\ pc' = "localeLoop"
    /\ li' = 1

\* stream.ts 130-134: the catch block of the source document's load yields the error
\* and returns
BaseLoadFailure == Fail("Failed to load base document.", "returned")

\* the translate button is not in use: no review is open
ReviewIdle == pendingReview = Null /\ selections = <<>>

\* no function is applied on its own
CallIdle == input = Null /\ output = Null

\* bulk.ts 228-230 and 253-255: the counters at the start of a run
NoTally == [overallTranslated |-> 0, overallFailed |-> 0, overallSkipped |-> 0,
            processed |-> 0, failed |-> 0, skipped |-> 0]

\* the orchestrator is not running
BulkIdle ==
    /\ bulkRequest = Null
    /\ bulkPc = "idle"
    /\ collIndex = 0
    /\ page = 0
    /\ results = Null
    /\ docIndex = 0
    /\ translation = <<>>
    /\ tally = NoTally
    /\ bulkEvents = <<>>
    /\ bulkCalls = <<>>
    /\ closed = FALSE

Init ==
    /\ request \in Requests
    /\ translator \in {"mock", "openai"}
    /\ pc = "start"
    /\ li = 0
    /\ ci = 0
    /\ oi = 0
    /\ baseDoc = Null
    /\ localeData = Obj(EmptyRecord)
    /\ completed = 0
    /\ events = <<>>
    /\ calls = <<>>
    /\ wlog = <<>>
    /\ ReviewIdle
    /\ CallIdle
    /\ BulkIdle

\* stream.ts 101-126: the precondition checks, then the load of the source document
Start ==
    /\ pc = "start"
    /\ UNCHANGED notStream
    /\ IF Len(request) = 0
       THEN Fail("No target locales provided.", "returned") /\ UNCHANGED calls
       ELSE IF countLocalesItems(request) = 0
       THEN Fail("No translation items provided.", "returned") /\ UNCHANGED calls
       ELSE /\ calls' = Append(calls, Call("findByID", FromLocale, 0, <<>>, Undef))
            /\ pc' = "awaitBase"
            /\ UNCHANGED <<events, li>>
    /\ UNCHANGED <<request, translator, ci, oi, baseDoc, localeData, completed, wlog>>

\* stream.ts 120-134: the source document arrives, or the load throws
BaseDocReturn ==
    /\ pc = "awaitBase"
    /\ UNCHANGED notStream
    /\ \E out \in BaseOutcomes :
        /\ calls' = Returned(IF out.ok THEN "ok" ELSE "failed", <<>>, -1)
        /\ IF ~out.ok
           THEN BaseLoadFailure /\ UNCHANGED baseDoc
           ELSE /\ baseDoc' = (IF out.doc.k = "obj" THEN out.doc ELSE Null)
                /\ li' = 1
                /\ pc' = "localeLoop"
                /\ UNCHANGED events
    /\ UNCHANGED <<request, translator, ci, oi, localeData, completed, wlog>>

\* stream.ts 136-141 and 290-291: the next locale entry, or the end of the run
LocaleLoop ==
    /\ pc = "localeLoop"
    /\ UNCHANGED notStream
    /\ IF li > Len(request)
       THEN /\ events' = Append(events, Event("done", "", 0, 0, 0, ""))
            /\ pc' = "returned"
            /\ UNCHANGED calls
       ELSE /\ calls' = Append(calls, Call("findByID", request[li].code, li, <<>>, Undef))
            /\ pc' = "awaitLocaleDoc"
            /\ UNCHANGED events
    /\ UNCHANGED <<request, translator, li, ci, oi, baseDoc, localeData, completed, wlog>>

\* stream.ts 141-166: the locale document arrives (a throw counts as absent); an entry
\* without items is skipped
LocaleDocReturn ==
    /\ pc = "awaitLocaleDoc"
    /\ UNCHANGED notStream
    /\ \E out \in LocaleOutcomes(request[li].code) :
        /\ calls' = [Returned(IF out.ok THEN "ok" ELSE "failed",
                              IF out.ok /\ LocaleTotal(request[li]) > 0
                              THEN DeletedFromLoaded(out.doc) ELSE <<>>, -1)
                        EXCEPT ![Len(calls)].data =
                            IF out.ok /\ LocaleTotal(request[li]) > 0 THEN out.doc ELSE Undef]
        /\ IF LocaleTotal(request[li]) = 0
           THEN /\ li' = li + 1
                /\ pc' = "localeLoop"
                /\ UNCHANGED <<localeData, completed, ci>>
           ELSE /\ localeData' = StripIdentity(IF out.ok THEN out.doc ELSE Null)
                /\ completed' = 0
                /\ ci' = 1
                /\ pc' = "chunkLoop"
                /\ li' = li
    /\ UNCHANGED <<request, translator, oi, baseDoc, events, wlog>>

\* stream.ts 168-197: the plans and texts of the next chunk and the translation call
ChunkLoop ==
    /\ pc = "chunkLoop"
    /\ UNCHANGED notStream
    /\ IF ci <= Len(request[li].chunks)
       THEN /\ calls' = Append(calls,
                   Call("translate", request[li].code, li,
                        TextsOf(PlansOf(request[li].chunks[ci], baseDoc)), Undef))
            /\ pc' = "awaitTranslate"
            /\ oi' = oi
       ELSE /\ oi' = 1
            /\ pc' = "overrideLoop"
            /\ UNCHANGED calls
    /\ UNCHANGED <<request, translator, li, ci, baseDoc, localeData, completed, events, wlog>>

\* stream.ts 195-249: the translation call returns or throws; the length check; the
\* writes of the chunk's items; the progress event
TranslateReturn ==
    /\ pc = "awaitTranslate"
    /\ UNCHANGED notStream
    /\ LET chunk == request[li].chunks[ci]
           locale == request[li].code
           texts == Last(calls).texts
       IN \E out \in TranslateOutcomes(translator, texts, locale) :
           /\ calls' = Returned(IF out.ok THEN "ok" ELSE "failed", out.list, out.raw)
           /\ IF ~out.ok
              THEN /\ Fail("Failed to translate chunk", "returned")
                   /\ UNCHANGED <<ci, localeData, completed, wlog, baseDoc>>
              ELSE IF LengthMismatch(out.list, texts)
              THEN /\ Fail("Translator mismatch: expected " \o ToString(Len(texts))
                           \o ", received " \o ToString(Len(out.list)), "returned")
                   /\ UNCHANGED <<ci, localeData, completed, wlog, baseDoc>>
              ELSE LET writes == ChunkWrites(baseDoc, localeData, chunk, out.list, 1, 0)
                   IN /\ wlog' = writes
                      /\ baseDoc' = SourceAfter(baseDoc, PlansOf(chunk, baseDoc), chunk,
                                                out.list, 1)
                      /\ localeData' = (IF writes = <<>> THEN localeData ELSE Last(writes).after)
                      /\ completed' = NextCompleted(completed, chunk)
                      /\ events' = Append(events,
                            Event("progress", locale, li, NextCompleted(completed, chunk),
                                  LocaleTotal(request[li]), ""))
                      /\ ci' = ci + 1
                      /\ pc' = "chunkLoop"
                      /\ li' = li
    /\ UNCHANGED <<request, translator, oi>>

\* stream.ts 253-255 sending the override's text through the translator's stand-in
overrideValueTranslated(override, locale) == Str(Translated(override.text, locale))

\* stream.ts 253-255: the value an override writes; locale is the entry's code
overrideValue(override, locale) ==
    IF override.lexical THEN htmlToLexicalValue(override.text) ELSE Str(override.text)

\* stream.ts 262 without the Array.isArray test
hasUnexpectedShapeUnlessArray(data) == data.k \notin {"obj", "arr"}

\* stream.ts 262: typeof localeData !== 'object' || localeData === null ||
\* Array.isArray(localeData)
hasUnexpectedShape(data) == ~IsPlainObject(data)

\* stream.ts 251-265: the next override is written and counted; after the last one
\* the shape of the working copy is checked
OverrideLoop ==
    /\ pc = "overrideLoop"
    /\ UNCHANGED notStream
    /\ IF oi <= Len(request[li].overrides)
       THEN LET override == request[li].overrides[oi]
                nextValue == overrideValue(override, request[li].code)
                w == Write(baseDoc, localeData, override.path, nextValue)
            IN /\ wlog' = <<w>>
               /\ localeData' = w.after
               /\ completed' = completed + 1
               /\ events' = Append(events,
                     Event("progress", request[li].code, li, completed + 1,
                           LocaleTotal(request[li]), ""))
               /\ oi' = oi + 1
               /\ pc' = "overrideLoop"
               /\ li' = li
       ELSE /\ IF hasUnexpectedShape(localeData)
               THEN Fail("Translated data has unexpected shape.", AfterShapeError)
               ELSE pc' = "update" /\ UNCHANGED <<events, li>>
            /\ UNCHANGED <<oi, localeData, completed, wlog>>
    /\ UNCHANGED <<request, translator, ci, baseDoc, calls>>

\* stream.ts 267-274: payload.update is called with the working copy
IssueUpdate ==
    /\ pc = "update"
    /\ UNCHANGED notStream
    /\ calls' = Append(calls, Call("update", request[li].code, li, <<>>, localeData))
    /\ pc' = "awaitUpdate"
    /\ UNCHANGED <<request, translator, li, ci, oi, baseDoc, localeData, completed, events, wlog>>

\* stream.ts 267-282: the update returns or throws
UpdateReturn ==
    /\ pc = "awaitUpdate"
    /\ UNCHANGED notStream
    /\ \E ok \in BOOLEAN :
        /\ calls' = Returned(IF ok THEN "ok" ELSE "failed", <<>>, -1)
        /\ IF ok
           THEN pc' = "applied" /\ UNCHANGED <<events, li>>
           ELSE UpdateFailure(request[li].code)
    /\ UNCHANGED <<request, translator, ci, oi, baseDoc, localeData, completed, wlog>>

\* stream.ts 284-288: the applied event, then the next locale entry
YieldApplied ==
    /\ pc = "applied"
    /\ UNCHANGED notStream
    /\ events' = Append(events, Event("applied", request[li].code, li, 0, 0, ""))
    /\ li' = li + 1
    /\ pc' = "localeLoop"
    /\ UNCHANGED <<request, translator, ci, oi, baseDoc, localeData, completed, calls, wlog>>

Next ==
    \/ Start
    \/ BaseDocReturn
    \/ LocaleLoop
    \/ LocaleDocReturn
    \/ ChunkLoop
    \/ TranslateReturn
    \/ OverrideLoop
    \/ IssueUpdate
    \/ UpdateReturn
    \/ YieldApplied

Spec == Init /\ [][Next]_vars

----------------------------------------------------------------------------
(* Properties *)

\* the locale entry at position i of the request carries at least one item
HasItems(i) == LocaleTotal(request[i]) > 0

\* the positions of the events of a type
EventsOfType(type) == {i \in DOMAIN events : events[i].type = type}

\* the positions of the applied events of a locale entry
AppliedOf(entry) == {i \in EventsOfType("applied") : events[i].entry = entry}

\* the positions of the update calls of a locale entry
UpdatesOf(entry) == {c \in DOMAIN calls : calls[c].op = "update" /\ calls[c].entry = entry}

\* the translation calls that returned a list of another length than the texts sent
MismatchedCalls ==
    {c \in DOMAIN calls : /\ calls[c].op = "translate"
                          /\ calls[c].status = "ok"
                          /\ Len(calls[c].result) # Len(calls[c].texts)}

\* C1: whenever the translation call of a batch returned a list whose length differs
\* from the number of segments sent, the run has ended: it emitted exactly one error
\* event (the mismatch message), that event is the last one (no done, nothing after
\* it), no call was issued after the translation call, and the locale entry being
\* processed has no applied event and no payload.update.
C1_MismatchIsFatal ==
    \A c \in MismatchedCalls :
        /\ pc = "returned"
        /\ c = Len(calls)
        /\ Cardinality(EventsOfType("error")) = 1
        /\ EventsOfType("done") = {}
        /\ events # <<>>
        /\ Last(events) = ErrorEvent(calls[c].entry,
               "Translator mismatch: expected " \o ToString(Len(calls[c].texts))
               \o ", received " \o ToString(Len(calls[c].result)))
        /\ AppliedOf(calls[c].entry) = {}
        /\ UpdatesOf(calls[c].entry) = {}

\* C1 witness: the second locale's translation call returned fewer results than sent,
\* after the first locale was applied
C1_Witness ==
    \E c \in MismatchedCalls :
        /\ Len(calls[c].result) < Len(calls[c].texts)
        /\ calls[c].entry = 2
        /\ AppliedOf(1) # {}
        /\ pc = "returned"

\* the translation calls for which the provider answered with another number of
\* entries than the texts sent
ProviderMismatchedCalls ==
    {c \in DOMAIN calls : /\ calls[c].op = "translate"
                          /\ calls[c].raw >= 0
                          /\ calls[c].raw # Len(calls[c].texts)}

\* C2: (the claim as stated) when the provider's answer for a batch holds another
\* number of segments than sent, no payload.update is issued and no applied event is
\* emitted for that locale entry, and the run ends with an error event.
C2_ProviderMismatchIsFatal ==
    \A c \in ProviderMismatchedCalls :
        /\ UpdatesOf(calls[c].entry) = {}
        /\ AppliedOf(calls[c].entry) = {}
        /\ (pc = "returned" => Last(events).type = "error")

\* p is a prefix of q (or q itself)
IsPrefix(p, q) == Len(p) <= Len(q) /\ SubSeq(q, 1, Len(p)) = p

\* the request holds one locale entry with one batch of n >= 1 plain items and no
\* override
SingleBatchRequest ==
    /\ Len(request) = 1
    /\ Len(request[1].chunks) = 1
    /\ Len(request[1].chunks[1]) >= 1
    /\ \A i \in DOMAIN request[1].chunks[1] : ~request[1].chunks[1][i].lexical
    /\ request[1].overrides = <<>>

\* the run has ended, every call it made succeeded and the translator returned as many
\* results as texts were sent
RunOfSuccessfulCalls ==
    /\ pc = "returned"
    /\ \A c \in DOMAIN calls : calls[c].status = "ok"
    /\ MismatchedCalls = {}
    /\ \E c \in DOMAIN calls : calls[c].op = "translate"

\* no path of the batch starts with a decimal segment, and no path is another item's
\* path or a prefix of it
IndependentPaths(chunk) ==
    /\ \A i \in DOMAIN chunk : ~IsIndex(chunk[i].path[1])
    /\ \A i, j \in DOMAIN chunk : i # j => ~IsPrefix(chunk[i].path, chunk[j].path)

\* the events and the store update of the end-to-end scenario
SingleBatchOutcome ==
    LET chunk == request[1].chunks[1]
        locale == request[1].code
        n == Len(chunk)
        translated == {c \in DOMAIN calls : calls[c].op = "translate"}
        updates == {c \in DOMAIN calls : calls[c].op = "update"}
    IN /\ events = <<Event("progress", locale, 1, n, n, ""),
                     Event("applied", locale, 1, 0, 0, ""),
                     Event("done", "", 0, 0, 0, "")>>
       /\ Cardinality(updates) = 1
       /\ Cardinality(translated) = 1
       /\ \A u \in updates : \A t \in translated :
            /\ calls[u].locale = locale
            /\ calls[u].overrideAccess
            /\ \A i \in DOMAIN chunk :
                 getValueAtPath(calls[u].data, chunk[i].path) = Str(calls[t].result[i])

C4_BlockTypePreserved ==
    \A w \in DOMAIN wlog : \A p \in DOMAIN wlog[w].path :
        IsIndex(wlog[w].path[p]) =>
            LET prefix == SubSeq(wlog[w].path, 1, p)
                elemAfter == getValueAtPath(wlog[w].after, prefix)
                elemBefore == getValueAtPath(wlog[w].before, prefix)
                elemSource == getValueAtPath(baseDoc, prefix)
                sourceHas == elemSource.k = "obj" /\ Truthy(Get(elemSource, "blockType"))
                intoField == p < Len(wlog[w].path) /\ ~IsIndex(wlog[w].path[p + 1])
            IN /\ (elemAfter.k = "obj" /\ sourceHas) => Truthy(Get(elemAfter, "blockType"))
               /\ (intoField /\ Truthy(Get(elemBefore, "blockType")))
                    => Get(elemAfter, "blockType") = Get(elemBefore, "blockType")
               /\ (intoField /\ ~Truthy(Get(elemBefore, "blockType")) /\ sourceHas)
                    => Get(elemAfter, "blockType") = Get(elemSource, "blockType")

\* C4 witness: a translated title was written into a block the locale document did not
\* hold, and the new element carries the source block's blockType
C4_Witness ==
    \E w \in DOMAIN wlog :
        /\ wlog[w].path = <<"layout", "0", "title">>
        /\ getValueAtPath(wlog[w].before, <<"layout", "0">>) = Undef
        /\ getValueAtPath(wlog[w].after, <<"layout", "0">>) =
             Obj([blockType |-> Str("hero"), title |-> wlog[w].value])
        /\ pc = "returned"

\* the run met a failure: a refused request, a failed load of the source document, a
\* failed or mismatched translation, a working copy that is no plain object, or a
\* failed update (a failed load of a locale document is tolerated, stream.ts 145-147)
RunFailed ==
    \/ Len(request) = 0
    \/ countLocalesItems(request) = 0
    \/ \E c \in DOMAIN calls :
         calls[c].status = "failed" /\ ~(calls[c].op = "findByID" /\ calls[c].entry >= 1)
    \/ MismatchedCalls # {}
    \/ ~IsPlainObject(localeData)

\* C5: a run yields at most one terminal event (done or error) and nothing after it,
\* and a run that has ended yielded exactly one, as its last event: done when no
\* failure occurred (and then every locale entry with items was applied), error
\* otherwise.
C5_OneTerminalEvent ==
    LET terminals == EventsOfType("done") \cup EventsOfType("error")
    IN /\ Cardinality(terminals) <= 1
       /\ \A i \in terminals : i = Len(events) /\ pc = "returned"
       /\ pc = "returned" =>
            /\ terminals # {}
            /\ (Last(events).type = "done") <=> ~RunFailed
            /\ Last(events).type = "done" =>
                 \A i \in DOMAIN request : HasItems(i) => AppliedOf(i) # {}

\* C5 witness: a run ended with an error event after an earlier locale was applied
C5_Witness ==
    /\ pc = "returned"
    /\ Last(events).type = "error"
    /\ AppliedOf(1) # {}
    /\ Len(events) >= 3

\* the positions of the progress events of a locale entry, in order
ProgressOf(entry) ==
    SelectSeq([i \in DOMAIN events |-> i],
              LAMBDA i : events[i].type = "progress" /\ events[i].entry = entry)

\* the calls that have not returned
PendingCalls == {c \in DOMAIN calls : calls[c].status = "pending"}

\* C6: an applied event follows a payload.update of its locale entry that returned
\* successfully; every progress event of a locale entry precedes its applied event;
\* no call for a locale entry is issued before every earlier entry with items has its
\* applied event; at most one call (so at most one translation call) is outstanding.
C6_OrderingWithinRun ==
    /\ \A i \in EventsOfType("applied") :
         /\ \E c \in UpdatesOf(events[i].entry) :
              calls[c].status = "ok" /\ calls[c].ret < i /\ calls[c].locale = events[i].locale
         /\ \A j \in EventsOfType("progress") : events[j].entry = events[i].entry => j < i
    /\ \A c \in DOMAIN calls : \A j \in 1..(calls[c].entry - 1) :
         HasItems(j) => \E i \in AppliedOf(j) : i <= calls[c].at
    /\ \A i \in EventsOfType("progress") : \A j \in 1..(events[i].entry - 1) :
         HasItems(j) => \E a \in AppliedOf(j) : a < i
    /\ Cardinality(PendingCalls) <= 1
    /\ \A c \in PendingCalls : c = Len(calls)

\* C6 witness: a finished run applied two locale entries, each after its own progress
C6_Witness ==
    /\ pc = "returned"
    /\ Len(request) = 2
    /\ AppliedOf(1) # {}
    /\ AppliedOf(2) # {}
    /\ Len(ProgressOf(1)) >= 2
    /\ Len(ProgressOf(2)) >= 1

\* the completed count the k-th progress event of a locale entry must carry
ExpectedCompleted(entry, k) ==
    IF k <= Len(entry.chunks)
    THEN countItems(SubSeq(entry.chunks, 1, k))
    ELSE countItems(entry.chunks) + (k - Len(entry.chunks))

\* C7: the k-th progress event of a locale entry carries the locale's code, the
\* locale's total and the cumulative count of the items processed so far (one event
\* per batch, then one per override); the counts never decrease and never exceed the
\* total, and when the locale is applied the last one equals the total.
C7_ProgressCounts ==
    \A e \in DOMAIN request :
        LET progress == ProgressOf(e)
            steps == Len(request[e].chunks) + Len(request[e].overrides)
        IN /\ Len(progress) <= steps
           /\ \A k \in DOMAIN progress :
                /\ events[progress[k]].completed = ExpectedCompleted(request[e], k)
                /\ events[progress[k]].total = LocaleTotal(request[e])
                /\ events[progress[k]].locale = request[e].code
                /\ events[progress[k]].completed <= events[progress[k]].total
                /\ k > 1 => events[progress[k - 1]].completed <= events[progress[k]].completed
           /\ AppliedOf(e) # {} =>
                /\ Len(progress) = steps
                /\ events[Last(progress)].completed = LocaleTotal(request[e])

\* C7 witness: a locale entry of two batches and one override was applied after three
\* progress events
C7_Witness ==
    \E e \in DOMAIN request :
        /\ Len(request[e].chunks) = 2
        /\ Len(request[e].overrides) = 1
        /\ AppliedOf(e) # {}
        /\ Len(ProgressOf(e)) = 3

\* the update calls that threw
FailedUpdates == {c \in DOMAIN calls : calls[c].op = "update" /\ calls[c].status = "failed"}

C9_NoRollback ==
    \A i \in EventsOfType("error") :
        /\ \A j \in 1..(events[i].entry - 1) :
             HasItems(j) =>
                /\ Cardinality(UpdatesOf(j)) = 1
                /\ \A u \in UpdatesOf(j) : calls[u].status = "ok"
                /\ \E a \in AppliedOf(j) : a < i
        /\ \A c \in DOMAIN calls : calls[c].at < i /\ calls[c].status # "pending"
        /\ pc = "returned"

\* C9 witness: the second locale entry failed after the first was applied
C9_Witness ==
    \E i \in EventsOfType("error") :
        /\ events[i].entry = 2
        /\ AppliedOf(1) # {}
        /\ \E u \in UpdatesOf(1) : calls[u].status = "ok"
        /\ pc = "returned"

\* C10: for every request the endpoint accepts, payload.update is called at most once
\* per locale code.
C10_OneUpdatePerLocaleCode ==
    parseBodyAccepts(request) =>
        \A c, d \in DOMAIN calls :
            (calls[c].op = "update" /\ calls[d].op = "update" /\ calls[c].locale = calls[d].locale)
                => c = d

----------------------------------------------------------------------------
(* The review state of the translate button and the selection built from it *)

\* the executor is not running
StreamIdle ==
    /\ request = <<>>
    /\ translator = "mock"
    /\ pc = "returned"
    /\ li = 0
    /\ ci = 0
    /\ oi = 0
    /\ baseDoc = Null
    /\ localeData = Obj(EmptyRecord)
    /\ completed = 0
    /\ events = <<>>
    /\ calls = <<>>
    /\ wlog = <<>>

\* A JavaScript number: the integer n, or n + 0.5
Num(n) == [k |-> "num", n |-> n, half |-> FALSE]
NumHalf(n) == [k |-> "num", n |-> n, half |-> TRUE]

\* Number.isInteger(v)
IsInteger(v) == v.k = "num" /\ ~v.half

\* Number.isInteger(index) && index >= 0 && index < length
InBounds(index, length) == IsInteger(index) /\ index.n >= 0 /\ index.n < length

\* the elements of a sequence
Range(seq) == {seq[i] : i \in DOMAIN seq}

\* Array.from(new Set(...)) without the Set: every element is kept
KeepAll(seq) == seq

RECURSIVE Unique(_)
\* Array.from(new Set(seq)): the first occurrence of every element, in order
Unique(seq) ==
    IF seq = <<>> THEN <<>>
    ELSE LET front == Unique(SubSeq(seq, 1, Len(seq) - 1))
         IN IF seq[Len(seq)] \in Range(front) THEN front ELSE Append(front, seq[Len(seq)])

\* overrides[index] = value on a copy of the map
SetOverride(overrides, index, value) ==
    [x \in DOMAIN overrides \cup {index} |-> IF x = index THEN value ELSE overrides[x]]

\* delete overrides[index] on a copy of the map
DeleteOverride(overrides, index) == [x \in DOMAIN overrides \ {index} |-> overrides[x]]

\* the map {}
NoOverrides == [x \in {} |-> ""]

\* part_004 9-36 (and the hook's updateLocaleOverride): the override text of an item is
\* set, or cleared when the text is blank
applyLocaleOverride(state, code, index, value) ==
    IF state = Null THEN state
    ELSE [state EXCEPT !.locales =
            [l \in DOMAIN state.locales |->
                IF state.locales[l].code # code THEN state.locales[l]
                ELSE [state.locales[l] EXCEPT !.overrides =
                        IF Trim(value) = "" THEN DeleteOverride(@, index)
                        ELSE SetOverride(@, index, value)]]]

\* part_004 45-75 (and the hook's updateLocaleSkip): the skip flag of an item is set,
\* which removes its override, or cleared
applyLocaleSkip(state, code, index, skip) ==
    IF state = Null THEN state
    ELSE [state EXCEPT !.locales =
            [l \in DOMAIN state.locales |->
                IF state.locales[l].code # code THEN state.locales[l]
                ELSE IF skip
                THEN [state.locales[l] EXCEPT
                        !.skipped = IF index \in Range(@) THEN @ ELSE Append(@, index),
                        !.overrides = DeleteOverride(@, index)]
                ELSE [state.locales[l] EXCEPT
                        !.skipped = SelectSeq(@, LAMBDA x : x # index)]]]

\* part_008 26-45: the overrides that name an item and hold text, as Object.entries
\* lists them (integer keys in ascending order), with the trimmed text
overrideEntries(items, overrides) ==
    LET positions == SelectSeq([p \in 1..Len(items) |-> Num(p - 1)],
                               LAMBDA ix : ix \in DOMAIN overrides /\ Trim(overrides[ix]) # "")
    IN [e \in DOMAIN positions |->
            [index |-> positions[e],
             item |-> [items[positions[e].n + 1] EXCEPT !.text = Trim(overrides[positions[e]])]]]

\* part_008 20-58 (performTranslations.ts 141-177): the selection of one locale
createLocaleSelection(items, locale) ==
    LET skipSet == Range(locale.skipped)
        entries == overrideEntries(items, locale.overrides)
        overrideIndexes == {entries[e].index : e \in DOMAIN entries}
    IN [code |-> locale.code,
        overrides |-> [e \in DOMAIN entries |-> entries[e].item],
        translateIndexes |->
            SelectSeq(Unique(locale.translateIndexes),
                      LAMBDA index : /\ InBounds(index, Len(items))
                                     /\ index \notin skipSet
                                     /\ index \notin overrideIndexes)]

\* part_008 60-67 (performTranslations.ts 136-180): the selections of the locales that
\* have work
prepareLocalesForTranslation(items, locales) ==
    SelectSeq([l \in DOMAIN locales |-> createLocaleSelection(items, locales[l])],
              LAMBDA sel : sel.translateIndexes # <<>> \/ sel.overrides # <<>>)

\* value?.length: undefined when the value is undefined or null
OptionalLength(value) ==
    IF value.k \in {"undef", "null"} THEN Undef ELSE Num(Len(value.a))

\* value ?? fallback
Coalesce(value, fallback) == IF value.k \in {"undef", "null"} THEN fallback ELSE value

\* value > 0 for a number, undefined or null: undefined compares as NaN, null as 0
GreaterThanZero(value) ==
    /\ value.k = "num"
    /\ value.n > 0 \/ (value.n = 0 /\ value.half)

\* the test of reviewHelpers.ts on the mismatches alone
requiresHumanReviewOnMismatch(locales) ==
    \E l \in DOMAIN locales :
        GreaterThanZero(Coalesce(OptionalLength(locales[l].mismatches), Num(0)))

\* part_008 108-110: a locale's review result needs a manual review
localeRequiresManualReview(locale) ==
    /\ GreaterThanZero(Coalesce(OptionalLength(locale.mismatches), Num(0)))
    /\ GreaterThanZero(locale.existingCount)

\* reviewHelpers.ts 53-57: some locale has mismatches next to existing content
requiresHumanReview(locales) ==
    \E l \in DOMAIN locales :
        /\ GreaterThanZero(Coalesce(OptionalLength(locales[l].mismatches), Num(0)))
        /\ GreaterThanZero(Coalesce(locales[l].existingCount, Num(0)))

RECURSIVE suggestionOverrides(_)
\* reviewHelpers.ts 26-35: the suggestions with an integer index and text, as a map; a
\* later suggestion for an index replaces an earlier one
suggestionOverrides(suggestions) ==
    IF suggestions = <<>> THEN NoOverrides
    ELSE LET front == suggestionOverrides(SubSeq(suggestions, 1, Len(suggestions) - 1))
             suggestion == suggestions[Len(suggestions)]
         IN IF IsInteger(suggestion.index) /\ Trim(suggestion.text) # ""
            THEN SetOverride(front, suggestion.index, suggestion.text)
            ELSE front

\* reviewHelpers.ts 11-45: the review response as the state the modal edits
sanitizeLocalesFromReviewResponse(itemsLength, rawLocales) ==
    SelectSeq([l \in DOMAIN rawLocales |->
                  [code |-> rawLocales[l].code,
                   existingCount |-> rawLocales[l].existingCount,
                   mismatches |-> rawLocales[l].mismatches,
                   overrides |-> suggestionOverrides(rawLocales[l].suggestions),
                   skipped |-> <<>>,
                   translateIndexes |->
                       SelectSeq(Unique(rawLocales[l].translateIndexes),
                                 LAMBDA index : InBounds(index, itemsLength))]],
              LAMBDA locale : locale.translateIndexes # <<>> \/ DOMAIN locale.overrides # {})

\* the items of the document under review: the fragments 0 and 1
ReviewItems == <<ItemTitle, ItemHero>>

\* a mismatch the review reports for a fragment
Mismatch(index) == [index |-> index, reason |-> "missing"]

\* What the review endpoint may answer for one locale
ReviewAnswers ==
    { [existingCount |-> Num(1), mismatches |-> Arr(<<Mismatch(0)>>),
       suggestions |-> <<[index |-> Num(0), text |-> "Hoi"]>>,
       translateIndexes |-> <<Num(1)>>],
      [existingCount |-> Num(2), mismatches |-> Arr(<<Mismatch(0), Mismatch(1)>>),
       suggestions |-> <<>>,
       translateIndexes |-> <<Num(0), Num(1), Num(1), Num(2)>>],
      [existingCount |-> Num(1), mismatches |-> Arr(<<Mismatch(1)>>),
       suggestions |-> <<[index |-> Num(1), text |-> " "], [index |-> NumHalf(0), text |-> "Hoi"]>>,
       translateIndexes |-> <<Num(1), Num(0)>>],
      [existingCount |-> Num(0), mismatches |-> Arr(<<>>),
       suggestions |-> <<>>,
       translateIndexes |-> <<Num(0), Num(1)>>] }

\* the locale codes the button asks a review for
ReviewCodes == <<"nl", "de">>

\* The review responses: one answer per locale asked
ReviewResponses ==
    UNION { { [l \in 1..n |-> [code |-> ReviewCodes[l],
                               existingCount |-> f[l].existingCount,
                               mismatches |-> f[l].mismatches,
                               suggestions |-> f[l].suggestions,
                               translateIndexes |-> f[l].translateIndexes]] :
                f \in [1..n -> ReviewAnswers] } : n \in 1..Len(ReviewCodes) }

\* the texts typed into the editor of an item
OverrideTexts == {"", " ", "Hoi"}

\* part_006 99-106: the modal opens on a sanitized review response that needs a human
ReviewInit ==
    /\ StreamIdle
    /\ CallIdle
    /\ BulkIdle
    /\ selections = <<>>
    /\ \E response \in ReviewResponses :
         LET localesToTranslate ==
                 sanitizeLocalesFromReviewResponse(Len(ReviewItems), response)
         IN /\ localesToTranslate # <<>>
            /\ requiresHumanReview(localesToTranslate)
            /\ pendingReview = [items |-> ReviewItems, locales |-> localesToTranslate]

\* part_006 166-168: the editor of an item changes
updateLocaleOverride ==
    /\ \E l \in DOMAIN ReviewCodes, i \in DOMAIN ReviewItems, value \in OverrideTexts :
         pendingReview' = applyLocaleOverride(pendingReview, ReviewCodes[l], Num(i - 1), value)
    /\ UNCHANGED <<selections, streamVars, callVars, bulkVars>>

\* part_006 170-172: Skip / Include of an item is pressed
updateLocaleSkip ==
    /\ \E l \in DOMAIN ReviewCodes, i \in DOMAIN ReviewItems, skip \in BOOLEAN :
         pendingReview' = applyLocaleSkip(pendingReview, ReviewCodes[l], Num(i - 1), skip)
    /\ UNCHANGED <<selections, streamVars, callVars, bulkVars>>

\* part_006 130-160: the review is confirmed: the selections are built for the run and
\* the review is closed
confirmReview ==
    /\ pendingReview # Null
    /\ selections' = prepareLocalesForTranslation(pendingReview.items, pendingReview.locales)
    /\ pendingReview' = Null
    /\ UNCHANGED <<streamVars, callVars, bulkVars>>

ReviewNext ==
    \/ updateLocaleOverride
    \/ updateLocaleSkip
    \/ confirmReview

ReviewSpec == ReviewInit /\ [][ReviewNext]_vars

\* the selection prepareLocalesForTranslation builds for a locale of the open review
SelectionOf(code) ==
    SelectSeq(prepareLocalesForTranslation(pendingReview.items, pendingReview.locales),
              LAMBDA sel : sel.code = code)

\* C11: whatever overrides and skips were applied to the open review, the selection
\* prepareLocalesForTranslation builds from it holds no skipped index: an index marked
\* skipped for a locale is not in the locale's translateIndexes and no override of the
\* locale is the item of that index.
C11_SkippedNeverSelected ==
    pendingReview # Null =>
        \A l \in DOMAIN pendingReview.locales :
            LET locale == pendingReview.locales[l]
                chosen == SelectionOf(locale.code)
            IN \A s \in DOMAIN chosen : \A index \in Range(locale.skipped) :
                /\ index \notin Range(chosen[s].translateIndexes)
                /\ \A o \in DOMAIN chosen[s].overrides :
                     chosen[s].overrides[o].path # pendingReview.items[index.n + 1].path

----------------------------------------------------------------------------
(* Selections for any input: createLocaleSelection and the bulk buildLocalePlans *)

\* part_007 12
MAX_CHARS_PER_CHUNK == 3200

\* all the fragments in one batch
chunkTogether(items) == IF items = <<>> THEN <<>> ELSE <<items>>

RECURSIVE chunkFrom(_, _, _, _)
\* part_007 171-185: the loop of chunkItems from the items left, with the chunks closed
\* so far, the open chunk and its character total
chunkFrom(items, chunks, current, total) ==
    IF items = <<>> THEN (IF current # <<>> THEN Append(chunks, current) ELSE chunks)
    ELSE LET item == Head(items)
             length == Len(item.text)
         IN IF current # <<>> /\ total + length > MAX_CHARS_PER_CHUNK
            THEN chunkFrom(Tail(items), Append(chunks, current), <<item>>, length)
            ELSE chunkFrom(Tail(items), chunks, Append(current, item), total + length)

\* part_007 166-188
chunkItems(items) == chunkFrom(items, <<>>, <<>>, 0)

\* bulk.ts 145-163: the suggestions that name an item and hold text, in the order of
\* the list, with the trimmed text (items[index] is undefined outside the list)
suggestionEntries(items, suggestions) ==
    LET kept == SelectSeq(suggestions,
                          LAMBDA suggestion : /\ InBounds(suggestion.index, Len(items))
                                              /\ Trim(suggestion.text) # "")
    IN [e \in DOMAIN kept |->
            [index |-> kept[e].index,
             item |-> [items[kept[e].index.n + 1] EXCEPT !.text = Trim(kept[e].text)]]]

\* bulk.ts 141-143 and 165-167: the indexes of the items sent to the translator
planTranslateIndexes(items, locale) ==
    LET entries == suggestionEntries(items, locale.suggestions)
        overrideIndexes == {entries[e].index : e \in DOMAIN entries}
        sanitizedIndexes == SelectSeq(Unique(locale.translateIndexes),
                                      LAMBDA index : InBounds(index, Len(items)))
    IN SelectSeq(sanitizedIndexes, LAMBDA index : index \notin overrideIndexes)

\* bulk.ts 140-174: the plan of one locale
buildLocalePlan(items, locale) ==
    LET entries == suggestionEntries(items, locale.suggestions)
        indexes == planTranslateIndexes(items, locale)
        translateItems == [i \in DOMAIN indexes |-> items[indexes[i].n + 1]]
        overrides == [e \in DOMAIN entries |-> entries[e].item]
    IN [chunks |-> chunkItems(translateItems),
        code |-> locale.code,
        overrides |-> overrides,
        totalItems |-> Len(translateItems) + Len(overrides)]

\* bulk.ts 135-177: the plans of the locales that have work
buildLocalePlans(items, locales) ==
    SelectSeq([l \in DOMAIN locales |-> buildLocalePlan(items, locales[l])],
              LAMBDA plan : plan.totalItems > 0)

\* the index lists a caller may pass: duplicates, negative, fractional and too large
\* numbers included
IndexLists ==
    { <<>>, <<Num(1)>>, <<Num(0), Num(1)>>, <<Num(1), Num(1), Num(0)>>,
      <<Num(-1), Num(2), NumHalf(0), Num(0)>> }

\* the override maps a caller may pass
OverrideMaps ==
    { NoOverrides,
      SetOverride(NoOverrides, Num(0), "Hoi"),
      SetOverride(SetOverride(NoOverrides, Num(0), "Hoi"), Num(1), " "),
      SetOverride(SetOverride(SetOverride(NoOverrides, Num(1), "Dag"), Num(2), "Hoi"), Num(-1), "Hoi"),
      SetOverride(SetOverride(NoOverrides, Num(1), "Dag"), NumHalf(0), "Hoi") }

\* the suggestion lists a review may hold
SuggestionLists ==
    { <<>>,
      <<[index |-> Num(0), text |-> "Hoi"]>>,
      <<[index |-> Num(1), text |-> "Dag"], [index |-> Num(1), text |-> "Hoi"]>>,
      <<[index |-> Num(2), text |-> "Hoi"], [index |-> Num(-1), text |-> "Hoi"],
        [index |-> NumHalf(0), text |-> "Hoi"], [index |-> Num(1), text |-> " "]>> }

\* the skipped lists a caller may pass
SkippedLists == { <<>>, <<Num(0)>>, <<Num(1), Num(2)>> }

\* The arguments of a selection: the items and one locale's input
SelectionInputs ==
    { [items |-> ReviewItems,
       locale |-> [code |-> "nl", translateIndexes |-> t, overrides |-> o,
                   suggestions |-> g, skipped |-> k]] :
        t \in IndexLists, o \in OverrideMaps, g \in SuggestionLists, k \in SkippedLists }

SelectionInit ==
    /\ StreamIdle
    /\ ReviewIdle
    /\ BulkIdle
    /\ input \in SelectionInputs
    /\ output = Null

\* createLocaleSelection(items, locale)
CallCreateLocaleSelection ==
    /\ output' = [fn |-> "createLocaleSelection",
                  value |-> <<createLocaleSelection(input.items, input.locale)>>]
    /\ UNCHANGED <<input, streamVars, reviewVars, bulkVars>>

\* prepareLocalesForTranslation(items, [locale])
CallPrepareLocalesForTranslation ==
    /\ output' = [fn |-> "prepareLocalesForTranslation",
                  value |-> prepareLocalesForTranslation(input.items, <<input.locale>>)]
    /\ UNCHANGED <<input, streamVars, reviewVars, bulkVars>>

\* buildLocalePlans(items, [locale])
CallBuildLocalePlans ==
    /\ output' = [fn |-> "buildLocalePlans",
                  value |-> buildLocalePlans(input.items, <<input.locale>>)]
    /\ UNCHANGED <<input, streamVars, reviewVars, bulkVars>>

SelectionNext ==
    \/ CallCreateLocaleSelection
    \/ CallPrepareLocalesForTranslation
    \/ CallBuildLocalePlans

SelectionSpec == SelectionInit /\ [][SelectionNext]_vars

\* the indexes of the items a list of chosen items names (an item is named by its path)
IndexesOf(items, chosen) ==
    {Num(i - 1) : i \in {j \in DOMAIN items : \E c \in DOMAIN chosen : chosen[c].path = items[j].path}}

\* every chosen item is one of the items
AllFrom(items, chosen) ==
    \A c \in DOMAIN chosen : \E i \in DOMAIN items : chosen[c].path = items[i].path

\* a sequence without a repeated element
NoDuplicate(seq) == \A i, j \in DOMAIN seq : seq[i] = seq[j] => i = j

\* C12: for any translateIndexes, override map, suggestion list and skipped list, every
\* selection returned by createLocaleSelection / prepareLocalesForTranslation and every
\* plan returned by buildLocalePlans names no item both for translation and as an
\* override, names no item twice for translation, and names only items of the list by
\* integer indexes in [0, items.length).
C12_SelectionsWellFormed ==
    output # Null =>
        \A r \in DOMAIN output.value :
            IF output.fn = "buildLocalePlans"
            THEN LET plan == output.value[r]
                     translateItems == Flatten(plan.chunks)
                 IN /\ NoDuplicate(translateItems)
                    /\ translateItems \in Seq(Range(input.items))
                    /\ AllFrom(input.items, plan.overrides)
                    /\ IndexesOf(input.items, translateItems)
                         \cap IndexesOf(input.items, plan.overrides) = {}
                    /\ Range(planTranslateIndexes(input.items, input.locale))
                         = IndexesOf(input.items, translateItems)
            ELSE LET sel == output.value[r]
                 IN /\ NoDuplicate(sel.translateIndexes)
                    /\ \A index \in Range(sel.translateIndexes) :
                         InBounds(index, Len(input.items))
                    /\ AllFrom(input.items, sel.overrides)
                    /\ Range(sel.translateIndexes) \cap IndexesOf(input.items, sel.overrides) = {}

\* C12 witness: an index list with a duplicate and an index that is also overridden
\* gave a selection, and a plan, of one translated item and one override
C12_Witness ==
    /\ output # Null
    /\ input.locale.translateIndexes = <<Num(1), Num(1), Num(0)>>
    /\ \/ /\ output.fn = "createLocaleSelection"
          /\ Num(0) \in DOMAIN input.locale.overrides
          /\ output.value[1].translateIndexes = <<Num(1)>>
          /\ Len(output.value[1].overrides) = 1
       \/ /\ output.fn = "buildLocalePlans"
          /\ input.locale.suggestions = <<[index |-> Num(0), text |-> "Hoi"]>>
          /\ output.value[1].chunks = <<<<ItemHero>>>>
          /\ Len(output.value[1].overrides) = 1

----------------------------------------------------------------------------
(* streamTranslations: preconditions and the load of the source document *)

\* the request names no locale, or its locales hold no item in any batch or override
NothingToTranslate ==
    \A i \in DOMAIN request :
        /\ request[i].overrides = <<>>
        /\ \A c \in DOMAIN request[i].chunks : request[i].chunks[c] = <<>>

\* C13: for an empty locale list, and for locales whose batches and overrides hold no
\* item, streamTranslations yields exactly one error event and nothing else, and makes
\* no findByID, update or translation call.
C13_RejectsEmptyRequest ==
    NothingToTranslate =>
        /\ calls = <<>>
        /\ pc \in {"start", "returned"}
        /\ pc = "start" => events = <<>>
        /\ pc = "returned" =>
             events = <<ErrorEvent(0, IF Len(request) = 0 THEN "No target locales provided."
                                      ELSE "No translation items provided.")>>

\* C13 witness: a run for two locales, one with an empty batch, ended with the error
C13_Witness ==
    /\ pc = "returned"
    /\ Len(request) = 2
    /\ \E i \in DOMAIN request : request[i].chunks = <<<<>>>>
    /\ NothingToTranslate
    /\ Len(events) = 1

\* the loads of the source-locale document
BaseLoads == {c \in DOMAIN calls : calls[c].op = "findByID" /\ calls[c].entry = 0}

\* C14: the source-locale document is loaded at most once in a run, as the first call
\* of the run (before any locale is loaded, translated or written) and exactly once in
\* every run that passed the preconditions, whatever the number of locales; when that
\* load fails the run ends with exactly one error event as its only event and makes no
\* further call.
C14_BaseDocumentLoadedOnce ==
    /\ Cardinality(BaseLoads) <= 1
    /\ calls # <<>> => BaseLoads = {1} /\ calls[1].locale = FromLocale /\ calls[1].at = 0
    /\ (pc # "start" /\ ~NothingToTranslate) => BaseLoads = {1}
    /\ \A c \in BaseLoads :
         calls[c].status = "failed" =>
            /\ pc = "returned"
            /\ Len(calls) = 1
            /\ events = <<ErrorEvent(0, "Failed to load base document.")>>

\* C14 witness: a finished run over two locales with items loaded the source document
\* once; and a run whose load failed ended at once
C14_Witness ==
    /\ pc = "returned"
    /\ Len(request) = 2
    /\ HasItems(1) /\ HasItems(2)
    /\ \/ AppliedOf(1) # {} /\ AppliedOf(2) # {} /\ BaseLoads = {1}
       \/ calls[1].status = "failed"

----------------------------------------------------------------------------
(* The bulk orchestrator: generateBulkEvents behind createBulkTranslateHandler *)

\* the most documents the store holds over the collections of one run
MaxDocuments == 2

\* bulk.ts 251: the page size of payload.find
limit == 50

\* The collections a slug may name: payload.collections[slug] has a config or not, and
\* payload.count answers for it (a failing count is reported as 0, bulk.ts 179-187)
Collections ==
    { [slug |-> "posts", config |-> TRUE, count |-> 2],
      [slug |-> "pages", config |-> TRUE, count |-> 0],
      [slug |-> "ghosts", config |-> FALSE, count |-> 0] }

\* bulk.ts 41-66: parseBody leaves a non-empty list of distinct slugs
BulkRequests ==
    { [localization |-> z, collections |-> c] :
        z \in BOOLEAN,
        c \in { <<a>> : a \in Collections } \cup
              { pair \in Collections \X Collections :
                    pair[1] # pair[2] /\ pair[1].slug # "pages" } }

\* bulk.ts 202-210: the collections of the request that have a config
validCollections == SelectSeq(bulkRequest.collections, LAMBDA entry : entry.config)

RECURSIVE SumCounts(_)
SumCounts(entries) ==
    IF entries = <<>> THEN 0 ELSE Head(entries).count + SumCounts(Tail(entries))

\* bulk.ts 216-220: the sum of the counts of the valid collections
totalDocuments == SumCounts(validCollections)

\* The documents of the store: without identifier, without translatable text, and with
\* the two fragments of ReviewItems
DocumentWithoutId == [identified |-> FALSE, items |-> ReviewItems]
DocumentWithoutText == [identified |-> TRUE, items |-> <<>>]
DocumentWithText == [identified |-> TRUE, items |-> ReviewItems]

\* the documents a page may hold
PageDocuments ==
    { <<>>, <<DocumentWithoutText>>, <<DocumentWithText>>,
      <<DocumentWithoutId, DocumentWithText>> }

\* What payload.find may answer for a page: it fails, or returns documents and the
\* number of pages (0 and 1 are both read as one page, bulk.ts 475)
FindResults ==
    { [ok |-> FALSE] } \cup
    { [ok |-> TRUE, docs |-> d, totalPages |-> t] : d \in PageDocuments, t \in 1..2 }

\* The review results of a document: a locale with a mismatch next to existing text; a
\* second locale with one; nothing translated yet; everything up to date; a suggestion
\* for one fragment and the other one to translate
BulkReviewResponses ==
    { <<[code |-> "nl", existingCount |-> Num(1), mismatches |-> Arr(<<Mismatch(0)>>),
         suggestions |-> <<[index |-> Num(0), text |-> "Hoi"]>>,
         translateIndexes |-> <<Num(0), Num(1)>>]>>,
      <<[code |-> "nl", existingCount |-> Num(0), mismatches |-> Arr(<<>>), suggestions |-> <<>>,
         translateIndexes |-> <<Num(0), Num(1)>>],
        [code |-> "de", existingCount |-> Num(2), mismatches |-> Arr(<<Mismatch(1)>>),
         suggestions |-> <<>>, translateIndexes |-> <<Num(1)>>]>>,
      <<[code |-> "nl", existingCount |-> Num(0), mismatches |-> Arr(<<>>), suggestions |-> <<>>,
         translateIndexes |-> <<Num(0), Num(1)>>]>>,
      <<[code |-> "nl", existingCount |-> Num(2), mismatches |-> Arr(<<>>), suggestions |-> <<>>,
         translateIndexes |-> <<>>]>>,
      <<[code |-> "nl", existingCount |-> Num(1), mismatches |-> Arr(<<>>),
         suggestions |-> <<[index |-> Num(1), text |-> "Hoi"]>>,
         translateIndexes |-> <<Num(1), Num(0)>>],
        [code |-> "de", existingCount |-> Num(2), mismatches |-> Arr(<<>>), suggestions |-> <<>>,
         translateIndexes |-> <<>>]>> }

\* What runTranslationReview may do for a document: throw, or answer one review result
\* per target locale
ReviewOutcomes ==
    { [ok |-> FALSE] } \cup
    { [ok |-> TRUE, locales |-> response] : response \in BulkReviewResponses }

\* What streamTranslations yields for a document: progress and applied events closed
\* by one done or one error event (C5, C6)
StreamRuns ==
    { <<[type |-> "done"]>>,
      <<[type |-> "error", message |-> ""]>>,
      <<[type |-> "progress", locale |-> "nl", completed |-> 1, total |-> 1],
        [type |-> "applied", locale |-> "nl"],
        [type |-> "done"]>>,
      <<[type |-> "progress", locale |-> "nl", completed |-> 1, total |-> 1],
        [type |-> "applied", locale |-> "nl"],
        [type |-> "progress", locale |-> "de", completed |-> 1, total |-> 1],
        [type |-> "error", message |-> "Failed to update document."]>> }

\* bulk.ts 104-110 and 283-284: the identifier of a document, and the id its events
\* carry: a document without identifier is named after its collection and its rank
resolveDocumentId(doc) == doc.id

docIdOf(doc, slug) ==
    IF resolveDocumentId(doc) # Null THEN resolveDocumentId(doc)
    ELSE [k |-> "str", slug |-> slug, rank |-> tally.processed + tally.failed + tally.skipped + 1]

\* the events of the bulk stream
LogEvent(level, message) == [type |-> "log", level |-> level, message |-> message]
BulkStartEvent == [type |-> "start", totalCollections |-> Len(validCollections),
                   totalDocuments |-> totalDocuments]
BulkCollectionStartEvent(entry) ==
    [type |-> "collection-start", collection |-> entry.slug, totalDocuments |-> entry.count]
BulkDocumentStartEvent(slug, id) == [type |-> "document-start", collection |-> slug, id |-> id]
BulkDocumentProgressEvent(slug, id, event) ==
    [type |-> "document-progress", collection |-> slug, id |-> id,
     completed |-> event.completed, locale |-> event.locale, total |-> event.total]
BulkDocumentSkippedEvent(slug, id, reason) ==
    [type |-> "document-skipped", collection |-> slug, id |-> id, reason |-> reason]
BulkDocumentSuccessEvent(slug, id) == [type |-> "document-success", collection |-> slug, id |-> id]
BulkDocumentErrorEvent(slug, id, message) ==
    [type |-> "document-error", collection |-> slug, id |-> id, message |-> message]
BulkCollectionCompleteEvent(slug, t) ==
    [type |-> "collection-complete", collection |-> slug,
     failed |-> t.failed, processed |-> t.processed, skipped |-> t.skipped]
BulkDoneEvent(t) ==
    [type |-> "done", failed |-> t.overallFailed, processed |-> t.overallTranslated,
     skipped |-> t.overallSkipped]
BulkOverallProgressEvent(t) ==
    [type |-> "overall-progress",
     processed |-> t.overallTranslated + t.overallSkipped + t.overallFailed,
     total |-> totalDocuments]

\* a tally that keeps the collection's counter only
TalliedInCollection(counter, overall) == [tally EXCEPT ![counter] = @ + 1]

\* bulk.ts 291-292, 314-315, 351-352, 375-376, 439-443, 457-458: a document is counted
\* in one counter of its collection and in the matching counter of the run
Tallied(counter, overall) == [tally EXCEPT ![counter] = @ + 1, ![overall] = @ + 1]

\* bulk.ts 253-255: the counters at the start of a collection
CollectionTally == [tally EXCEPT !.processed = 0, !.failed = 0, !.skipped = 0]

\* The handler has parsed the body and starts the stream (bulk.ts 513-518)
BulkInit ==
    /\ StreamIdle
    /\ ReviewIdle
    /\ CallIdle
    /\ bulkRequest \in BulkRequests
    /\ bulkPc = "generate"
    /\ collIndex = 0
    /\ page = 0
    /\ results = Null
    /\ docIndex = 0
    /\ translation = <<>>
    /\ tally = NoTally
    /\ bulkEvents = <<>>
    /\ bulkCalls = <<>>
    /\ closed = FALSE

\* the collection, the document and the id of the document at hand
Collection == validCollections[collIndex]
Document == results.docs[docIndex]
DocId == docIdOf(Document, Collection.slug)

\* the number of documents started so far
Started == Cardinality({e \in DOMAIN bulkEvents : bulkEvents[e].type = "document-start"})

\* the stream is closed on an exception of the generator without a word
ThrownSilently(message) ==
    /\ bulkEvents' = bulkEvents
    /\ closed' = TRUE
    /\ bulkPc' = "closed"

\* bulk.ts 521-527: an exception of the generator is enqueued as an error log line and
\* the stream is closed
Thrown(message) ==
    /\ bulkEvents' = Append(bulkEvents, LogEvent("error", message))
    /\ closed' = TRUE
    /\ bulkPc' = "closed"

\* bulk.ts 282 and 473: the loop takes the next document of the page
NextDocument ==
    /\ docIndex' = docIndex + 1
    /\ bulkPc' = "document"

\* the run ends with the document that failed
DocumentFailureEndsRun(message) ==
    /\ Thrown(message)
    /\ UNCHANGED <<tally, docIndex>>

\* bulk.ts 453-472: the catch block of a document counts it as failed, yields its
\* document-error and the overall progress, and the loop goes on
DocumentFailure(message) ==
    /\ tally' = Tallied("failed", "overallFailed")
    /\ bulkEvents' = bulkEvents \o
           << LogEvent("error", "failed"),
              BulkDocumentErrorEvent(Collection.slug, DocId, message),
              BulkOverallProgressEvent(tally') >>
    /\ NextDocument
    /\ UNCHANGED closed

\* bulk.ts 311-329, 348-366, 372-390: a document is skipped for a reason
DocumentSkipped(reason) ==
    /\ tally' = Tallied("skipped", "overallSkipped")
    /\ bulkEvents' = bulkEvents \o
           << LogEvent("info", "skipped"),
              BulkDocumentSkippedEvent(Collection.slug, DocId, reason),
              BulkOverallProgressEvent(tally') >>
    /\ NextDocument
    /\ UNCHANGED closed

\* no review result asks for a manual review
requiresReviewNever(review) == FALSE

\* bulk.ts 343-345: some locale of the review has mismatches next to existing content
requiresReview(review) ==
    \E l \in DOMAIN review.locales :
        /\ GreaterThanZero(Coalesce(OptionalLength(review.locales[l].mismatches), Num(0)))
        /\ GreaterThanZero(review.locales[l].existingCount)

\* bulk.ts 193-226: generateBulkEvents up to its start event
GenerateStart ==
    /\ bulkPc = "generate"
    /\ IF ~bulkRequest.localization
       THEN Thrown("Localization is not configured.") /\ UNCHANGED collIndex
       ELSE IF validCollections = <<>>
       THEN Thrown("No valid collections to translate.") /\ UNCHANGED collIndex
       ELSE /\ bulkEvents' = Append(bulkEvents, BulkStartEvent)
            /\ bulkPc' = "collection"
            /\ collIndex' = 1
            /\ UNCHANGED closed
    /\ UNCHANGED <<bulkRequest, page, results, docIndex, translation, tally, bulkCalls>>
    /\ UNCHANGED notBulk

\* bulk.ts 232-256: a collection starts
CollectionStart ==
    /\ bulkPc = "collection"
    /\ collIndex <= Len(validCollections)
    /\ bulkEvents' = bulkEvents \o
           << BulkCollectionStartEvent(Collection), LogEvent("info", "starting") >>
    /\ page' = 1
    /\ tally' = CollectionTally
    /\ bulkPc' = "find"
    /\ UNCHANGED <<bulkRequest, collIndex, results, docIndex, translation, bulkCalls, closed>>
    /\ UNCHANGED notBulk

\* bulk.ts 258-281: a page of the collection is loaded; a failing load ends the
\* collection
Find ==
    /\ bulkPc = "find"
    /\ \E found \in FindResults :
         /\ found.ok => Started + Len(found.docs) <= MaxDocuments
         /\ bulkCalls' = Append(bulkCalls,
                [op |-> "find", collection |-> Collection.slug, page |-> page,
                 docs |-> IF found.ok THEN Len(found.docs) ELSE 0,
                 ok |-> found.ok,
                 totalPages |-> IF found.ok THEN found.totalPages ELSE 0])
         /\ IF ~found.ok
            THEN /\ bulkEvents' = Append(bulkEvents, LogEvent("error", "failed to load documents"))
                 /\ bulkPc' = "complete"
                 /\ UNCHANGED <<results, docIndex>>
            ELSE /\ results' =
                       [docs |-> [d \in DOMAIN found.docs |->
                                     [id |-> IF found.docs[d].identified
                                             THEN Num(limit * (page - 1) + d) ELSE Null,
                                      items |-> found.docs[d].items]],
                        totalPages |-> found.totalPages]
                 /\ docIndex' = 1
                 /\ bulkPc' = "document"
                 /\ UNCHANGED bulkEvents
    /\ UNCHANGED <<bulkRequest, collIndex, page, translation, tally, closed>>
    /\ UNCHANGED notBulk

\* bulk.ts 282-338: a document starts; one without identifier fails, one without
\* translatable text is skipped
DocumentStart ==
    /\ bulkPc = "document"
    /\ docIndex <= Len(results.docs)
    /\ LET started == Append(bulkEvents, BulkDocumentStartEvent(Collection.slug, DocId))
       IN IF resolveDocumentId(Document) = Null
          THEN /\ tally' = Tallied("failed", "overallFailed")
               /\ bulkEvents' = started \o
                      << LogEvent("error", "missing identifier"),
                         BulkDocumentErrorEvent(Collection.slug, DocId,
                             "Document identifier could not be resolved."),
                         BulkOverallProgressEvent(tally') >>
               /\ NextDocument
          ELSE IF Document.items = <<>>
          THEN /\ tally' = Tallied("skipped", "overallSkipped")
               /\ bulkEvents' = started \o
                      << LogEvent("info", "skipped"),
                         BulkDocumentSkippedEvent(Collection.slug, DocId,
                             "No translatable fields found."),
                         BulkOverallProgressEvent(tally') >>
               /\ NextDocument
          ELSE /\ bulkEvents' = started
               /\ bulkPc' = "review"
               /\ UNCHANGED <<tally, docIndex>>
    /\ UNCHANGED <<bulkRequest, collIndex, page, results, translation, bulkCalls, closed>>
    /\ UNCHANGED notBulk

\* bulk.ts 340-406: the review of the document: it throws, it asks for a manual review,
\* it leaves nothing to translate, or the translation of the plans starts
Review ==
    /\ bulkPc = "review"
    /\ \E review \in ReviewOutcomes, run \in StreamRuns :
         LET reviewed == [op |-> "runTranslationReview", collection |-> Collection.slug,
                          id |-> DocId, review |-> review]
             localePlans == buildLocalePlans(Document.items, review.locales)
         IN IF ~review.ok
            THEN /\ DocumentFailure("Translation failed.")
                 /\ bulkCalls' = Append(bulkCalls, reviewed)
                 /\ UNCHANGED translation
            ELSE IF requiresReview(review)
            THEN /\ DocumentSkipped("Manual review required due to conflicting translations.")
                 /\ bulkCalls' = Append(bulkCalls, reviewed)
                 /\ UNCHANGED translation
            ELSE IF localePlans = <<>>
            THEN /\ DocumentSkipped("Translations are already up-to-date.")
                 /\ bulkCalls' = Append(bulkCalls, reviewed)
                 /\ UNCHANGED translation
            ELSE /\ bulkCalls' = bulkCalls \o
                        << reviewed,
                           [op |-> "streamTranslations", collection |-> Collection.slug,
                            id |-> DocId, locales |-> localePlans, run |-> run] >>
                 /\ translation' = run
                 /\ bulkPc' = "stream"
                 /\ UNCHANGED <<bulkEvents, tally, docIndex, closed>>
    /\ UNCHANGED <<bulkRequest, collIndex, page, results>>
    /\ UNCHANGED notBulk

\* bulk.ts 406-472: the next event of the translation of the document
StreamEvent ==
    /\ bulkPc = "stream"
    /\ LET event == Head(translation)
       IN /\ translation' = Tail(translation)
          /\ IF event.type = "progress"
             THEN /\ bulkEvents' = Append(bulkEvents,
                        BulkDocumentProgressEvent(Collection.slug, DocId, event))
                  /\ UNCHANGED <<bulkCalls, tally, docIndex, bulkPc>>
             ELSE IF event.type = "applied"
             THEN /\ bulkEvents' = Append(bulkEvents, LogEvent("info", "saved locale"))
                  /\ bulkCalls' = Append(bulkCalls,
                        [op |-> "update", collection |-> Collection.slug, id |-> DocId,
                         locale |-> event.locale])
                  /\ UNCHANGED <<tally, docIndex, bulkPc>>
             ELSE IF event.type = "error"
             THEN /\ tally' = Tallied("failed", "overallFailed")
                  /\ bulkEvents' = bulkEvents \o
                         << LogEvent("error", "failed"),
                            BulkDocumentErrorEvent(Collection.slug, DocId,
                                IF event.message # "" THEN event.message
                                ELSE "Translation failed."),
                            BulkOverallProgressEvent(tally') >>
                  /\ NextDocument
                  /\ UNCHANGED bulkCalls
             ELSE /\ tally' = Tallied("processed", "overallTranslated")
                  /\ bulkEvents' = bulkEvents \o
                         << LogEvent("info", "translated successfully"),
                            BulkDocumentSuccessEvent(Collection.slug, DocId),
                            BulkOverallProgressEvent(tally') >>
                  /\ NextDocument
                  /\ UNCHANGED bulkCalls
    /\ UNCHANGED <<bulkRequest, collIndex, page, results, closed>>
    /\ UNCHANGED notBulk

\* bulk.ts 477 leaving the loop before the last page
hasMoreBelow(next, totalPages) == next < totalPages

\* bulk.ts 477: hasMore = page <= totalPages
hasMore(next, totalPages) == next <= totalPages

\* bulk.ts 475-477: the page is done
PageEnd ==
    /\ bulkPc = "document"
    /\ docIndex > Len(results.docs)
    /\ page' = page + 1
    /\ bulkPc' = IF hasMore(page + 1, results.totalPages) THEN "find" ELSE "complete"
    /\ UNCHANGED <<bulkRequest, collIndex, results, docIndex, translation, tally,
                   bulkEvents, bulkCalls, closed>>
    /\ UNCHANGED notBulk

\* bulk.ts 480-495: the collection is done
CollectionComplete ==
    /\ bulkPc = "complete"
    /\ bulkEvents' = bulkEvents \o
           << BulkCollectionCompleteEvent(Collection.slug, tally),
              LogEvent("info", IF tally.processed + tally.failed + tally.skipped = 0
                               THEN "no documents processed" ELSE "finished") >>
    /\ collIndex' = collIndex + 1
    /\ bulkPc' = "collection"
    /\ UNCHANGED <<bulkRequest, page, results, docIndex, translation, tally, bulkCalls, closed>>
    /\ UNCHANGED notBulk

\* bulk.ts 497-503 and 525-527: the summary of the run, and the stream is closed
Done ==
    /\ bulkPc = "collection"
    /\ collIndex > Len(validCollections)
    /\ bulkEvents' = Append(bulkEvents, BulkDoneEvent(tally))
    /\ closed' = TRUE
    /\ bulkPc' = "closed"
    /\ UNCHANGED <<bulkRequest, collIndex, page, results, docIndex, translation, tally, bulkCalls>>
    /\ UNCHANGED notBulk

BulkNext ==
    \/ GenerateStart
    \/ CollectionStart
    \/ Find
    \/ DocumentStart
    \/ Review
    \/ StreamEvent
    \/ PageEnd
    \/ CollectionComplete
    \/ Done

BulkSpec == BulkInit /\ [][BulkNext]_vars

\* the events of some types, in the order of the stream
BulkEventsOfType(types) == SelectSeq(bulkEvents, LAMBDA event : event.type \in types)

\* the number of events of some types before position e of the stream
CountBefore(types, e) ==
    Cardinality({b \in 1..(e - 1) : bulkEvents[b].type \in types})

\* the document events of the stream
DocumentEventTypes ==
    {"document-start", "document-progress", "document-skipped", "document-success",
     "document-error"}

\* the page requests of a collection, in the order they were made
FindsOf(slug) ==
    SelectSeq(bulkCalls, LAMBDA call : call.op = "find" /\ call.collection = slug)

\* the line logged when a page could not be loaded (bulk.ts 268-275)
LoadFailure == LogEvent("error", "failed to load documents")

\* the collection-complete event of a collection was emitted
Completed(slug) ==
    \E e \in DOMAIN bulkEvents :
        bulkEvents[e].type = "collection-complete" /\ bulkEvents[e].collection = slug

\* C36: the 'start' event is the first event of a run that has valid collections and
\* occurs once; the collection-start events, and the collection-complete events, name
\* the valid collections in request order, one each, the k-th collection-start before
\* the k-th collection-complete before the next collection-start, and every document
\* event of a collection lies between the two; 'done' comes after all of them; the
\* pages of a collection are requested as 1, 2, ... once each in increasing order, a
\* further page only while the last answer counted more pages, and a completed
\* collection whose requests all succeeded was read up to the number of pages its
\* last answer counted; a failed load is followed at once by the collection-complete
\* of its collection and the stream is not closed before 'done'
C36_CollectionsAndPagesInOrder ==
    LET starts == BulkEventsOfType({"collection-start"})
        completes == BulkEventsOfType({"collection-complete"})
    IN /\ bulkEvents # <<>> =>
            \/ bulkEvents[1].type = "start"
            \/ Len(bulkEvents) = 1 /\ bulkEvents[1].type = "log" /\ closed
       /\ \A e \in DOMAIN bulkEvents : bulkEvents[e].type = "start" => e = 1
       /\ Len(completes) <= Len(starts)
       /\ Len(starts) <= Len(completes) + 1
       /\ Len(starts) <= Len(validCollections)
       /\ \A k \in DOMAIN starts : starts[k].collection = validCollections[k].slug
       /\ \A k \in DOMAIN completes : completes[k].collection = validCollections[k].slug
       /\ \A e \in DOMAIN bulkEvents :
            LET opened == CountBefore({"collection-start"}, e)
                ended == CountBefore({"collection-complete"}, e)
            IN /\ bulkEvents[e].type = "collection-start" => ended = opened
               /\ bulkEvents[e].type = "collection-complete" => opened = ended + 1
               /\ bulkEvents[e].type \in DocumentEventTypes =>
                    /\ opened = ended + 1
                    /\ bulkEvents[e].collection = validCollections[opened].slug
               /\ bulkEvents[e].type = "done" =>
                    /\ e = Len(bulkEvents)
                    /\ opened = Len(validCollections)
                    /\ ended = Len(validCollections)
               /\ bulkEvents[e] = LoadFailure =>
                    IF e = Len(bulkEvents)
                    THEN bulkPc = "complete" /\ ~closed
                    ELSE /\ bulkEvents[e + 1].type = "collection-complete"
                         /\ bulkEvents[e + 1].collection = validCollections[opened].slug
       /\ closed /\ bulkEvents[1].type = "start" =>
            bulkEvents[Len(bulkEvents)].type = "done"
       /\ \A v \in DOMAIN validCollections :
            LET finds == FindsOf(validCollections[v].slug)
            IN /\ \A f \in DOMAIN finds :
                    /\ finds[f].page = f
                    /\ f < Len(finds) =>
                         finds[f].ok /\ hasMore(f + 1, finds[f].totalPages)
               /\ v > Len(starts) => finds = <<>>
               /\ Completed(validCollections[v].slug) =>
                    /\ finds # <<>>
                    /\ finds[Len(finds)].ok =>
                         ~hasMore(Len(finds) + 1, finds[Len(finds)].totalPages)
                    /\ (\A f \in DOMAIN finds :
                            finds[f].ok /\ finds[f].totalPages = finds[1].totalPages)
                         => Len(finds) = finds[1].totalPages

\* a run over two collections is done: the only page request of the first failed and
\* its collection-complete followed, the second was read over its two pages
C36_Witness ==
    /\ closed
    /\ Len(validCollections) = 2
    /\ bulkEvents[Len(bulkEvents)].type = "done"
    /\ LET first == FindsOf(validCollections[1].slug)
           second == FindsOf(validCollections[2].slug)
       IN /\ Len(first) = 1
          /\ ~first[1].ok
          /\ Len(second) = 2
          /\ second[2].ok
          /\ second[1].totalPages = 2
          /\ second[2].totalPages = 2
    /\ \E e \in DOMAIN bulkEvents : bulkEvents[e] = LoadFailure

\* the positions of the events of some types in the bulk stream
BulkEventsOf(types) == {e \in DOMAIN bulkEvents : bulkEvents[e].type \in types}
Starts == BulkEventsOf({"document-start"})
Outcomes == BulkEventsOf({"document-success", "document-skipped", "document-error"})

\* the outcome events of the document started at position s: those before the next
\* document-start
OutcomesOf(s) == {o \in Outcomes : o > s /\ \A t \in Starts : t > s => o < t}

\* the outcome events of the document id of a collection
OutcomesFor(slug, id) ==
    {o \in Outcomes : bulkEvents[o].collection = slug /\ bulkEvents[o].id = id}

\* a document is under review or being translated
DocumentOpen == bulkPc \in {"review", "stream"}

RECURSIVE FetchedIn(_)
\* the number of documents the find calls of a call log returned
FetchedIn(log) ==
    IF log = <<>> THEN 0
    ELSE (IF Head(log).op = "find" THEN Head(log).docs ELSE 0) + FetchedIn(Tail(log))

\* C15: every document of a fetched page gets a document-start event followed, before
\* the next document-start, by exactly one outcome event that carries its collection
\* and id (none yet while the document is under review or being translated); a document
\* whose review threw or whose translation ended with an error gets document-error as
\* that outcome, and the failed counter of the run counts the document-error events;
\* and whatever the outcomes, once a page is done every document fetched so far has
\* been started.
C15_FailureIsTalliedAndRunContinues ==
    /\ \A s \in Starts :
         /\ Cardinality(OutcomesOf(s)) =
                IF DocumentOpen /\ \A t \in Starts : t <= s THEN 0 ELSE 1
         /\ \A o \in OutcomesOf(s) :
                /\ bulkEvents[o].collection = bulkEvents[s].collection
                /\ bulkEvents[o].id = bulkEvents[s].id
    /\ \A o \in Outcomes : \E s \in Starts : o \in OutcomesOf(s)
    /\ \A c \in DOMAIN bulkCalls :
         LET call == bulkCalls[c]
             open == DocumentOpen /\ call.collection = Collection.slug /\ call.id = DocId
             failed == \/ call.op = "runTranslationReview" /\ ~call.review.ok
                       \/ call.op = "streamTranslations" /\ ~open
                              /\ call.run[Len(call.run)].type = "error"
         IN failed =>
              /\ Cardinality(OutcomesFor(call.collection, call.id)) = 1
              /\ \A o \in OutcomesFor(call.collection, call.id) :
                     bulkEvents[o].type = "document-error"
    /\ tally.overallFailed = Cardinality(BulkEventsOf({"document-error"}))
    /\ bulkPc \in {"find", "complete", "collection", "closed"} =>
           Cardinality(Starts) = FetchedIn(bulkCalls)

\* C15 witness: a finished run in which the review of the first document threw, the
\* translation of the second one ended with an error, and both were counted as failed
C15_Witness ==
    /\ closed
    /\ bulkEvents[Len(bulkEvents)].type = "done"
    /\ bulkEvents[Len(bulkEvents)].failed = 2
    /\ \E c, d \in DOMAIN bulkCalls :
         /\ c < d
         /\ bulkCalls[c].op = "runTranslationReview" /\ ~bulkCalls[c].review.ok
         /\ bulkCalls[d].op = "streamTranslations"
         /\ bulkCalls[d].run[Len(bulkCalls[d].run)].type = "error"

\* the reviews of the call log that report a locale in need of a manual review
ManualReviews ==
    {c \in DOMAIN bulkCalls :
        /\ bulkCalls[c].op = "runTranslationReview"
        /\ bulkCalls[c].review.ok
        /\ \E l \in DOMAIN bulkCalls[c].review.locales :
               localeRequiresManualReview(bulkCalls[c].review.locales[l])}

\* C16: a document whose review reports at least one locale that requires a manual
\* review gets document-skipped as its one outcome (never document-error or
\* document-success), the skipped counter of the run counts the document-skipped
\* events, and neither streamTranslations nor payload.update is called for it.
C16_ManualReviewSkipsDocument ==
    /\ \A c \in ManualReviews :
         LET call == bulkCalls[c]
         IN /\ Cardinality(OutcomesFor(call.collection, call.id)) = 1
            /\ \A o \in OutcomesFor(call.collection, call.id) :
                   bulkEvents[o].type = "document-skipped"
            /\ \A d \in DOMAIN bulkCalls :
                   (bulkCalls[d].op \in {"streamTranslations", "update"}
                       /\ bulkCalls[d].collection = call.collection)
                   => bulkCalls[d].id # call.id
    /\ tally.overallSkipped = Cardinality(BulkEventsOf({"document-skipped"}))

\* C16 witness: a finished run skipped a document because its second locale needs a
\* manual review, and translated another document
C16_Witness ==
    /\ closed
    /\ \E c \in ManualReviews :
         /\ Len(bulkCalls[c].review.locales) = 2
         /\ ~localeRequiresManualReview(bulkCalls[c].review.locales[1])
    /\ \E o \in Outcomes :
         /\ bulkEvents[o].type = "document-skipped"
         /\ bulkEvents[o].reason = "Manual review required due to conflicting translations."
    /\ \E d \in DOMAIN bulkCalls : bulkCalls[d].op = "update"

\* the overall-progress events of the bulk stream, in order
OverallProgress == SelectSeq(bulkEvents, LAMBDA event : event.type = "overall-progress")

\* the collection-complete events of the bulk stream, in order
Completes == SelectSeq(bulkEvents, LAMBDA event : event.type = "collection-complete")

RECURSIVE SumOf(_, _)
\* the sum of a counter over a list of events
SumOf(list, counter) ==
    IF list = <<>> THEN 0 ELSE Head(list)[counter] + SumOf(Tail(list), counter)

\* the position of the collection-start event that opens the collection closed at
\* position j
OpenedAt(j) ==
    CHOOSE s \in BulkEventsOf({"collection-start"}) :
        /\ s < j
        /\ \A t \in BulkEventsOf({"collection-start"}) : t < j => t <= s

\* C17: the three counters of the run count the document-success, document-skipped
\* and document-error events, so each document raises exactly one of them by one; the
\* k-th overall-progress event reports processed = k, follows an outcome event
\* directly and reports the sum of the three counters of the run; the counts of each
\* collection-complete event are those of the outcomes of its collection and their
\* sum is the number of its document-start events; and the done event reports the
\* sums of the collection-complete counts.
C17_CountersConsistent ==
    /\ tally.overallTranslated = Cardinality(BulkEventsOf({"document-success"}))
    /\ tally.overallSkipped + tally.overallFailed =
           Cardinality(BulkEventsOf({"document-skipped", "document-error"}))
    /\ tally.overallTranslated + tally.overallSkipped + tally.overallFailed =
           Cardinality(Outcomes)
    /\ Len(OverallProgress) = Cardinality(Outcomes)
    /\ \A k \in DOMAIN OverallProgress : OverallProgress[k].processed = k
    /\ \A e \in BulkEventsOf({"overall-progress"}) : e - 1 \in Outcomes
    /\ \A j \in BulkEventsOf({"collection-complete"}) :
         LET within(types) == Cardinality({e \in BulkEventsOf(types) : OpenedAt(j) < e /\ e < j})
             event == bulkEvents[j]
         IN /\ event.processed = within({"document-success"})
            /\ event.skipped = within({"document-skipped"})
            /\ event.failed = within({"document-error"})
            /\ event.processed + event.skipped + event.failed = within({"document-start"})
    /\ \A e \in BulkEventsOf({"done"}) :
         /\ bulkEvents[e].processed = SumOf(Completes, "processed")
         /\ bulkEvents[e].skipped = SumOf(Completes, "skipped")
         /\ bulkEvents[e].failed = SumOf(Completes, "failed")

\* C17 witness: a finished run over two collections with a document each, one
\* translated and one not
C17_Witness ==
    /\ closed
    /\ Len(Completes) = 2
    /\ Completes[1].processed + Completes[1].skipped + Completes[1].failed = 1
    /\ Completes[2].processed = 1
    /\ bulkEvents[Len(bulkEvents)].type = "done"
    /\ bulkEvents[Len(bulkEvents)].processed = 1
    /\ Len(OverallProgress) = 2

\* C18: once closed, the bulk stream holds exactly one done event, the summary
\* {processed, skipped, failed}, and it is the last event of the stream.
C18_StreamEndsWithSummary ==
    closed =>
        /\ Cardinality(BulkEventsOf({"done"})) = 1
        /\ bulkEvents[Len(bulkEvents)].type = "done"

\* the run fails before its start event
RunFails == ~bulkRequest.localization \/ validCollections = <<>>

\* C18 (amended): once closed, the bulk stream ends with exactly one terminal event as
\* its last event: the done summary with the counters of the run when the run went
\* through its collections, or an error log line with the message of the exception when
\* the run failed (no localization, no valid collection); a failed run holds no done
\* event, and no event of either kind is enqueued before the stream is closed.
C18_StreamEndsWithTerminalEvent ==
    LET last == bulkEvents[Len(bulkEvents)]
        errors == {e \in BulkEventsOf({"log"}) :
                      bulkEvents[e].message \in {"Localization is not configured.",
                                                 "No valid collections to translate."}}
    IN /\ ~closed => BulkEventsOf({"done"}) = {} /\ errors = {}
       /\ closed =>
            /\ bulkEvents # <<>>
            /\ IF RunFails
               THEN /\ last = LogEvent("error", IF ~bulkRequest.localization
                                                THEN "Localization is not configured."
                                                ELSE "No valid collections to translate.")
                    /\ Len(bulkEvents) = 1
               ELSE /\ last = BulkDoneEvent(tally)
                    /\ BulkEventsOf({"done"}) = {Len(bulkEvents)}
                    /\ errors = {}

\* C18 witness: a run over a slug that names no collection was closed after its error
\* line
C18_Witness ==
    /\ closed
    /\ bulkRequest.localization
    /\ validCollections = <<>>
    /\ bulkRequest.collections # <<>>
    /\ bulkEvents[Len(bulkEvents)].type = "log"

----------------------------------------------------------------------------
(* The three tests for a manual review, on one review result *)

\* The review result of one locale as the tests may meet it: existingCount a number,
\* missing or null; mismatches a list, or missing
LocaleReviews ==
    { [code |-> "nl", existingCount |-> e, mismatches |-> m, suggestions |-> <<>>,
       translateIndexes |-> <<Num(0)>>] :
        e \in {Undef, Null, Num(0), Num(1), Num(2)},
        m \in {Undef, Arr(<<>>), Arr(<<Mismatch(0)>>), Arr(<<Mismatch(0), Mismatch(1)>>)} }

\* the review results of a document: none, one or two locales
ReviewResults ==
    { <<>> } \cup { <<a>> : a \in LocaleReviews } \cup
    { <<a, b>> : a \in LocaleReviews, b \in {c \in LocaleReviews : c.existingCount # Num(2)} }

\* no test has answered yet
NoAnswers == [fn \in {} |-> FALSE]

\* the answers with the one of a test added
Answered(fn, answer) ==
    [f \in DOMAIN output \cup {fn} |-> IF f = fn THEN answer ELSE output[f]]

ManualReviewInit ==
    /\ StreamIdle
    /\ ReviewIdle
    /\ BulkIdle
    /\ input \in ReviewResults
    /\ output = NoAnswers

\* localeRequiresManualReview(locale), for each locale of the result
CallLocaleRequiresManualReview ==
    /\ output' = Answered("localeRequiresManualReview",
                          [l \in DOMAIN input |-> localeRequiresManualReview(input[l])])
    /\ UNCHANGED <<input, streamVars, reviewVars, bulkVars>>

\* requiresHumanReview(locales)
CallRequiresHumanReview ==
    /\ output' = Answered("requiresHumanReview", requiresHumanReview(input))
    /\ UNCHANGED <<input, streamVars, reviewVars, bulkVars>>

\* the test of the bulk orchestrator on review.locales
CallRequiresReview ==
    /\ output' = Answered("requiresReview", requiresReview([ok |-> TRUE, locales |-> input]))
    /\ UNCHANGED <<input, streamVars, reviewVars, bulkVars>>

ManualReviewNext ==
    \/ CallLocaleRequiresManualReview
    \/ CallRequiresHumanReview
    \/ CallRequiresReview

ManualReviewSpec == ManualReviewInit /\ [][ManualReviewNext]_vars

\* a locale's review result has at least one mismatch next to existing content
MismatchNextToExisting(locale) ==
    /\ locale.mismatches.k = "arr" /\ Len(locale.mismatches.a) >= 1
    /\ locale.existingCount.k = "num" /\ locale.existingCount.n >= 1

\* C19: on one review result, localeRequiresManualReview answers true for a locale
\* exactly when the locale has at least one mismatch and existingCount > 0, and
\* requiresHumanReview and the test of the bulk orchestrator both answer true exactly
\* when localeRequiresManualReview does for some locale of the list.
C19_SamePredicate ==
    LET asked(fn) == fn \in DOMAIN output
        some == \E l \in DOMAIN input : MismatchNextToExisting(input[l])
    IN /\ asked("localeRequiresManualReview") =>
            \A l \in DOMAIN input :
                output["localeRequiresManualReview"][l] = MismatchNextToExisting(input[l])
       /\ asked("requiresHumanReview") => output["requiresHumanReview"] = some
       /\ asked("requiresReview") => output["requiresReview"] = some
       /\ (asked("requiresHumanReview") /\ asked("requiresReview")) =>
            output["requiresHumanReview"] = output["requiresReview"]

\* C19 witness: the three tests have answered on a result of two locales, the second
\* of which has a mismatch next to existing content and the first a mismatch without
\* any, and they say yes
C19_Witness ==
    /\ DOMAIN output = {"localeRequiresManualReview", "requiresHumanReview", "requiresReview"}
    /\ Len(input) = 2
    /\ input[1].existingCount = Num(0) /\ input[1].mismatches = Arr(<<Mismatch(0)>>)
    /\ MismatchNextToExisting(input[2])
    /\ output["requiresHumanReview"]
    /\ output["localeRequiresManualReview"] = <<FALSE, TRUE>>

----------------------------------------------------------------------------
(* The review: generateTranslationReview (reviewPlan.ts 49-185) and
   runTranslationReview (handler.ts 722-859) *)

\* part_007 131-164: the trimmed text of a string, the joined trimmed texts of the
\* text nodes of a rich text, null for anything else and for no text
extractPlainText(value) ==
    IF value.k = "str"
    THEN (IF Trim(value.s) # "" THEN Str(Trim(value.s)) ELSE Null)
    ELSE IF isLexicalValue(value)
    THEN LET nodes == collectLexicalTextNodes(value)
             collected == SelectSeq([n \in DOMAIN nodes |-> Trim(nodes[n])],
                                    LAMBDA text : text # "")
             merged == Trim(JoinSpace(collected))
         IN IF merged # "" THEN Str(merged) ELSE Null
    ELSE Null

\* every fragment is taken to have text in the locale, whatever the document holds
existingTextAssumed(localeDoc, item) == "Oud"

\* reviewPlan.ts 85-86: the text the locale document holds at the path of an item, ''
\* when it holds none
existingTextOf(localeDoc, item) ==
    LET existingValue == IF localeDoc # Null THEN getValueAtPath(localeDoc, item.path)
                         ELSE Undef
        text == extractPlainText(existingValue)
    IN IF text = Null THEN "" ELSE text.s

RECURSIVE DescendingIndexes(_)
\* the indexes from the largest to the least
DescendingIndexes(set) ==
    IF set = {} THEN <<>>
    ELSE LET most == CHOOSE a \in set : \A b \in set : a >= b
         IN <<most>> \o DescendingIndexes(set \ {most})

RECURSIVE SortedIndexes(_)
\* Array.from(set).sort((a, b) => a - b)
SortedIndexes(set) ==
    IF set = {} THEN <<>>
    ELSE LET least == CHOOSE a \in set : \A b \in set : a <= b
         IN <<least>> \o SortedIndexes(set \ {least})

\* The requests of a review: the review function called (the review endpoint's
\* generateTranslationReview or the bulk path's runTranslationReview), the fragments of
\* a document and the target locales
ReviewRequests ==
    { [fn |-> f, items |-> i, locales |-> l] :
        f \in { "generateTranslationReview", "runTranslationReview" },
        i \in { <<>>, <<ItemTitle>>, <<ItemTitle, ItemHero>>, <<ItemTitle, ItemBody>> },
        l \in { <<"nl">>, <<"nl", "de">> } }

\* locale documents without text at the paths of the fragments: no field at all, and a
\* blank title, no layout and a rich text of one blank text node
LocaleDocumentEmpty == Obj([id |-> Str("1")])
LocaleDocumentBlank ==
    Obj([id |-> Str("1"), title |-> Str(" "), layout |-> Null,
         body |-> LexicalOf(<<createParagraph(<<createTextNode(" ")>>)>>)])

\* What findByID may answer for a target locale: a throw, no document, a document
\* without text at the paths (no field, blank text, an empty rich text), and documents
\* with text at some or all of the paths
ExistingOutcomes ==
    { [ok |-> FALSE, doc |-> Null],
      [ok |-> TRUE, doc |-> Null],
      [ok |-> TRUE, doc |-> LocaleDocumentEmpty],
      [ok |-> TRUE, doc |-> LocaleDocumentBlank],
      [ok |-> TRUE, doc |-> Obj([id |-> Str("1"), title |-> Str("Oud")])],
      [ok |-> TRUE, doc |-> Obj([id |-> Str("1"), title |-> Str("Oud"),
                                 layout |-> Arr(<<Obj([title |-> Str("Oud")])>>),
                                 body |-> LexicalOf(<<createParagraph(<<createTextNode("Oud")>>)>>)])] }

\* The issues of a provider's answer that does not keep to 'one entry per input item'
\* (openai.ts 124-130): none, one for an index that was not sent, the issue of the
\* first input twice, and a second issue that contradicts the first
ProviderIssues(aiInputs) ==
    LET issue(index, missing) ==
            [index |-> index, missing |-> missing,
             reason |-> IF missing THEN "Lacks detail." ELSE ""]
        stray == -1
    IN { <<>>, <<issue(stray, TRUE)>> } \cup
       (IF aiInputs = <<>> THEN {}
        ELSE { <<issue(aiInputs[1].index, TRUE), issue(aiInputs[1].index, TRUE)>>,
               <<issue(aiInputs[1].index, TRUE), issue(aiInputs[1].index, FALSE),
                 issue(stray, TRUE)>> })

\* openai.ts 156-170 returning one result per issue of the answer
detectResultsPerIssue(inputs, issues) ==
    [r \in DOMAIN issues |->
        [index |-> issues[r].index, missing |-> issues[r].missing,
         reason |-> IF issues[r].missing THEN Trim(issues[r].reason) ELSE ""]]

\* openai.ts 156-170: one result per input, with the input's index: the first issue
\* that names the index decides, an input no issue names misses nothing
detectResults(inputs, issues) ==
    [a \in DOMAIN inputs |->
        LET matches == {r \in DOMAIN issues : issues[r].index = inputs[a].index}
        IN IF matches = {}
           THEN [index |-> inputs[a].index, missing |-> FALSE, reason |-> ""]
           ELSE LET match == issues[CHOOSE r \in matches : \A q \in matches : r <= q]
                IN [index |-> inputs[a].index, missing |-> match.missing,
                    reason |-> IF match.missing THEN Trim(match.reason) ELSE ""]]

\* What openAiDetectMissingInformation may answer for its inputs (openai.ts 156-170):
\* a throw, or one result per input, carrying the input's index, that reports missing
\* information for none, the first or all of them, with or without a reason
DetectOutcomes(aiInputs) ==
    { [ok |-> FALSE, results |-> <<>>] } \cup
    { [ok |-> TRUE,
       results |-> [a \in DOMAIN aiInputs |->
                       [index |-> aiInputs[a].index,
                        missing |-> a <= m,
                        reason |-> IF a <= m /\ worded THEN "Lacks detail." ELSE ""]]] :
        m \in {0, 1, Len(aiInputs)}, worded \in BOOLEAN } \cup
    { [ok |-> TRUE, results |-> detectResults(aiInputs, issues)] :
        issues \in ProviderIssues(aiInputs) }

\* What await openAiTranslateTexts(texts, from, locale) may give a review: what it
\* gives the executor, and the answer of a provider whose entry for the first text
\* is null, which coerceString turns into ''
SuggestOutcomes(texts, to) ==
    TranslateOutcomes("openai", texts, to) \cup
    { [ok |-> TRUE,
       list |-> openAiTranslateTexts(texts,
                    [i \in DOMAIN texts |->
                        IF i = 1 THEN Null ELSE Str(Translated(texts[i], to))]),
       raw |-> Len(texts)] : none \in {texts} \ {<<>>} }

\* a payload.update of the locale's document
StoreUpdate(code, found) ==
    [op |-> "update", locale |-> code, ok |-> found.ok, doc |-> found.doc]

\* reviewPlan.ts 59-65, handler.ts 733-739: the call that loads the locale's document
StoreRead(code, found) ==
    [op |-> "findByID", locale |-> code, ok |-> found.ok, doc |-> found.doc]

\* the frame of a call of a review function that has not started a locale
ReviewFrame ==
    [pc |-> "load", li |-> 1, localeDoc |-> Null, translateIndexes |-> {},
     mismatches |-> <<>>, existingCount |-> 0, translateCandidates |-> <<>>,
     locales |-> <<>>, calls |-> <<>>]

ReviewPlanInit ==
    /\ StreamIdle
    /\ ReviewIdle
    /\ BulkIdle
    /\ input \in ReviewRequests
    /\ output = ReviewFrame

\* reviewPlan.ts 55-74, handler.ts 729-748: the document of the next target locale is loaded; a failing
\* load is thrown to the caller
LoadLocale ==
    /\ output.pc = "load"
    /\ output.li <= Len(input.locales)
    /\ \E found \in ExistingOutcomes :
         output' = [output EXCEPT
             !.calls = Append(@, StoreRead(input.locales[output.li], found)),
             !.localeDoc = found.doc,
             !.pc = IF found.ok THEN "check" ELSE "thrown"]
    /\ UNCHANGED <<input, streamVars, reviewVars, bulkVars>>

\* reviewPlan.ts 76-130, handler.ts 750-805: the fragments without text in the locale are to translate, the
\* others are counted and checked for missing information; a failing check is thrown
CheckExisting ==
    /\ output.pc = "check"
    /\ LET items == input.items
           existing == [i \in DOMAIN items |-> existingTextOf(output.localeDoc, items[i])]
           absent == {i - 1 : i \in {j \in DOMAIN items : existing[j] = ""}}
           present == SelectSeq([i \in DOMAIN items |-> i - 1],
                                LAMBDA index : existing[index + 1] # "")
           aiInputs == [a \in DOMAIN present |->
                           [defaultText |-> items[present[a] + 1].text,
                            index |-> present[a],
                            translatedText |-> existing[present[a] + 1]]]
           first == SelectSeq([i \in DOMAIN items |-> [index |-> i - 1, text |-> items[i].text]],
                              LAMBDA entry : entry.index \in absent)
       IN IF aiInputs = <<>>
          THEN output' = [output EXCEPT
                   !.translateIndexes = absent, !.mismatches = <<>>,
                   !.existingCount = Len(present), !.translateCandidates = first,
                   !.pc = "suggest"]
          ELSE \E detected \in DetectOutcomes(aiInputs) :
                 LET called == Append(output.calls,
                                   [op |-> "openAiDetectMissingInformation",
                                    locale |-> input.locales[output.li],
                                    ok |-> detected.ok, inputs |-> aiInputs,
                                    results |-> detected.results])
                     missing == SelectSeq(detected.results, LAMBDA result : result.missing)
                     known(index) == index + 1 \in DOMAIN items
                     named == SelectSeq(missing, LAMBDA result : known(result.index))
                 IN IF ~detected.ok
                    THEN output' = [output EXCEPT !.calls = called, !.pc = "thrown"]
                    ELSE output' = [output EXCEPT
                             !.calls = called,
                             !.translateIndexes =
                                 absent \cup {missing[r].index : r \in DOMAIN missing},
                             !.mismatches =
                                 [r \in DOMAIN missing |->
                                     [defaultText |-> IF known(missing[r].index)
                                                      THEN items[missing[r].index + 1].text ELSE "",
                                      existingText |-> IF known(missing[r].index)
                                                       THEN existing[missing[r].index + 1] ELSE "",
                                      index |-> missing[r].index,
                                      path |-> IF known(missing[r].index)
                                               THEN items[missing[r].index + 1].path ELSE <<>>,
                                      reason |-> IF missing[r].reason # "" THEN missing[r].reason
                                                 ELSE "Missing information detected."]],
                             !.existingCount = Len(present),
                             !.translateCandidates =
                                 first \o [r \in DOMAIN named |->
                                              [index |-> named[r].index,
                                               text |-> items[named[r].index + 1].text]],
                             !.pc = "suggest"]
    /\ UNCHANGED <<input, streamVars, reviewVars, bulkVars>>

\* reviewPlan.ts 138-152: the candidates once per index (the first one wins), in the
\* order of the sorted indexes
orderedCandidates(candidates, sortedIndexes) ==
    LET textOf(index) ==
            LET e == CHOOSE c \in DOMAIN candidates :
                         /\ candidates[c].index = index
                         /\ \A d \in DOMAIN candidates :
                                candidates[d].index = index => c <= d
            IN candidates[e].text
        kept == SelectSeq(sortedIndexes,
                    LAMBDA index : \E c \in DOMAIN candidates : candidates[c].index = index)
    IN [k \in DOMAIN kept |-> [index |-> kept[k], text |-> textOf(kept[k])]]

RECURSIVE sanitizeFrom(_, _, _)
\* handler.ts 834-847: the filter of sanitizeSuggestions with its set of seen indexes
sanitizeFrom(suggestions, kept, seen) ==
    IF suggestions = <<>> THEN kept
    ELSE LET suggestion == Head(suggestions)
         IN IF \/ suggestion.index \notin Int
               \/ Trim(suggestion.text) = ""
               \/ suggestion.index \in seen
            THEN sanitizeFrom(Tail(suggestions), kept, seen)
            ELSE sanitizeFrom(Tail(suggestions), Append(kept, suggestion),
                              seen \cup {suggestion.index})

\* handler.ts 834-847: the suggestions with an integer index and a text that is not
\* blank, once per index
sanitizeSuggestions(suggestions) == sanitizeFrom(suggestions, <<>>, {})

\* reviewPlan.ts 132-182 and handler.ts 807-855: the candidates are translated into
\* suggestions and the result of the locale is added. The candidates of the model fit
\* one batch of chunkSuggestionInputs. generateTranslationReview sends the candidates
\* once per index in ascending order, pairs every candidate with the text returned at
\* its position and returns no suggestion when the translation throws;
\* runTranslationReview sends the candidates as collected, throws when the translation
\* throws or returns another number of texts, and filters the suggestions.
SuggestTranslations ==
    /\ output.pc = "suggest"
    /\ LET code == input.locales[output.li]
           sortedIndexes == SortedIndexes(output.translateIndexes)
           candidates == IF input.fn = "generateTranslationReview"
                         THEN orderedCandidates(output.translateCandidates, sortedIndexes)
                         ELSE output.translateCandidates
           chunks == chunkItems(candidates)
           texts == [k \in DOMAIN chunks[1] |-> chunks[1][k].text]
           result(suggestions, log) ==
               [output EXCEPT
                   !.calls = log,
                   !.locales = Append(@,
                       [code |-> code,
                        existingCount |-> Num(output.existingCount),
                        mismatches |-> Arr(output.mismatches),
                        suggestions |->
                            IF input.fn = "generateTranslationReview" /\ suggestions = <<>>
                            THEN Undef
                            ELSE Arr([k \in DOMAIN suggestions |->
                                         [index |-> Num(suggestions[k].index),
                                          text |-> suggestions[k].text]]),
                        translateIndexes |-> [k \in DOMAIN sortedIndexes |-> Num(sortedIndexes[k])]]),
                   !.li = @ + 1,
                   !.pc = "load"]
       IN IF output.translateCandidates = <<>>
          THEN output' = result(<<>>, output.calls)
          ELSE \E answer \in SuggestOutcomes(texts, code) :
                 LET called == Append(output.calls,
                                   [op |-> "openAiTranslateTexts", locale |-> code,
                                    ok |-> answer.ok, texts |-> texts,
                                    indexes |-> [k \in DOMAIN chunks[1] |-> chunks[1][k].index],
                                    raw |-> answer.raw])
                     collected == [k \in DOMAIN chunks[1] |->
                                      [index |-> chunks[1][k].index,
                                       text |-> IF k \in DOMAIN answer.list
                                                THEN answer.list[k] ELSE ""]]
                 IN IF input.fn = "generateTranslationReview"
                    THEN output' = result(IF answer.ok THEN collected ELSE <<>>, called)
                    ELSE IF ~answer.ok \/ LengthMismatch(answer.list, chunks[1])
                    THEN output' = [output EXCEPT !.calls = called, !.pc = "thrown"]
                    ELSE output' = result(sanitizeSuggestions(collected), called)
    /\ UNCHANGED <<input, streamVars, reviewVars, bulkVars>>

\* reviewPlan.ts 184, handler.ts 858: every locale is reviewed and the results are returned
ReturnLocales ==
    /\ output.pc = "load"
    /\ output.li > Len(input.locales)
    /\ output' = [output EXCEPT !.pc = "returned"]
    /\ UNCHANGED <<input, streamVars, reviewVars, bulkVars>>

ReviewPlanNext ==
    \/ LoadLocale
    \/ CheckExisting
    \/ SuggestTranslations
    \/ ReturnLocales

ReviewPlanSpec == ReviewPlanInit /\ [][ReviewPlanNext]_vars

\* the calls of a review made for a locale code
ReviewCallsFor(op, code) ==
    SelectSeq(output.calls, LAMBDA call : call.op = op /\ call.locale = code)

\* the locale's document was loaded and holds no text at any path of the fragments:
\* there is no document, or one of the documents without text
NothingExisting(code) ==
    /\ ReviewCallsFor("findByID", code) # <<>>
    /\ ReviewCallsFor("findByID", code)[1].ok
    /\ ReviewCallsFor("findByID", code)[1].doc \in {Null, LocaleDocumentEmpty, LocaleDocumentBlank}

\* C20: for a target locale that has no document, or no text at any fragment path,
\* generateTranslationReview makes no classification call, and the locale's result has
\* translateIndexes 0..N-1 in order, no mismatch and existingCount 0.
C20_NothingExistingTranslatesAll ==
    /\ \A l \in DOMAIN input.locales :
         NothingExisting(input.locales[l]) =>
             ReviewCallsFor("openAiDetectMissingInformation", input.locales[l]) = <<>>
    /\ \A r \in DOMAIN output.locales :
         NothingExisting(output.locales[r].code) =>
             /\ output.locales[r].translateIndexes = [i \in DOMAIN input.items |-> Num(i - 1)]
             /\ output.locales[r].mismatches = Arr(<<>>)
             /\ output.locales[r].existingCount = Num(0)

\* C20 witness: a review of two fragments returned for a locale without document and
\* for a locale whose document holds blank text only
C20_Witness ==
    /\ output.pc = "returned"
    /\ input.items = <<ItemTitle, ItemBody>>
    /\ Len(output.locales) = 2
    /\ ReviewCallsFor("findByID", "nl")[1].doc = Null
    /\ ReviewCallsFor("findByID", "de")[1].doc = LocaleDocumentBlank
    /\ output.locales[2].translateIndexes = <<Num(0), Num(1)>>

\* the translation calls of a review whose provider answer held fewer entries than
\* the texts sent
ShortAnswers ==
    SelectSeq(output.calls,
        LAMBDA call : /\ call.op = "openAiTranslateTexts"
                      /\ call.raw >= 0
                      /\ call.raw < Len(call.texts))

\* C21: when the translation service returns fewer results than the texts sent for a
\* batch, the review of that locale fails as a whole: no suggestion is returned for
\* that locale, by generateTranslationReview and by runTranslationReview.
C21_ShortAnswerFailsReview ==
    \A c \in DOMAIN ShortAnswers :
        \A r \in DOMAIN output.locales :
            output.locales[r].code = ShortAnswers[c].locale =>
                output.locales[r].suggestions \in {Undef, Arr(<<>>)}

\* the indexes of the fragments without text in the document findByID returned for a
\* locale code
AbsentIn(code) ==
    LET doc == ReviewCallsFor("findByID", code)[1].doc
    IN {i - 1 : i \in {j \in DOMAIN input.items : existingTextOf(doc, input.items[j]) = ""}}

\* the indexes the classification call made for a locale code marked missing
MarkedMissing(code) ==
    LET detect == ReviewCallsFor("openAiDetectMissingInformation", code)
    IN IF detect = <<>> THEN {}
       ELSE {detect[1].results[r].index :
                r \in {q \in DOMAIN detect[1].results : detect[1].results[q].missing}}

\* C22: for every locale of a review result, translateIndexes is strictly increasing,
\* each entry is a valid fragment index, and the set is the indexes without existing
\* text in the locale document united with the indexes the classification marked
\* missing; every mismatch's index is in translateIndexes and its path and defaultText
\* are those of the fragment at that index.
C22_TranslateIndexesSortedAndExact ==
    \A r \in DOMAIN output.locales :
        LET locale == output.locales[r]
            indexes == locale.translateIndexes
            set == {indexes[k].n : k \in DOMAIN indexes}
        IN /\ \A j, k \in DOMAIN indexes : j < k => indexes[j].n < indexes[k].n
           /\ \A k \in DOMAIN indexes :
                 /\ indexes[k] = Num(indexes[k].n)
                 /\ indexes[k].n + 1 \in DOMAIN input.items
           /\ set = AbsentIn(locale.code) \cup MarkedMissing(locale.code)
           /\ \A m \in DOMAIN locale.mismatches.a :
                 LET mismatch == locale.mismatches.a[m]
                 IN /\ mismatch.index \in set
                    /\ mismatch.path = input.items[mismatch.index + 1].path
                    /\ mismatch.defaultText = input.items[mismatch.index + 1].text

\* C22 witness: generateTranslationReview returned, for two fragments of which the
\* second has no text in the locale and the first was marked missing, the indexes 0, 1
\* and the mismatch of the first fragment
C22_Witness ==
    /\ input.fn = "generateTranslationReview"
    /\ output.pc = "returned"
    /\ input.items = <<ItemTitle, ItemHero>>
    /\ AbsentIn("nl") = {1}
    /\ MarkedMissing("nl") = {0}
    /\ output.locales[1].translateIndexes = <<Num(0), Num(1)>>
    /\ Len(output.locales[1].mismatches.a) = 1
    /\ output.locales[1].mismatches.a[1].path = ItemTitle.path

\* the suggestions of a locale result, none when the list is left out
SuggestionsOf(locale) ==
    IF locale.suggestions = Undef THEN <<>> ELSE locale.suggestions.a

\* C23: every suggestion list of a review (generateTranslationReview and
\* runTranslationReview) holds each fragment index at most once, every suggestion has
\* a non-empty text, every suggestion index is one of the locale's translateIndexes,
\* and the texts sent to the translation service are once per index and in ascending
\* order of index.
C23_SuggestionsWellFormed ==
    /\ \A r \in DOMAIN output.locales :
         LET suggestions == SuggestionsOf(output.locales[r])
             indexes == output.locales[r].translateIndexes
         IN /\ \A j, k \in DOMAIN suggestions :
                  suggestions[j].index = suggestions[k].index => j = k
            /\ \A k \in DOMAIN suggestions : suggestions[k].text # ""
            /\ \A k \in DOMAIN suggestions :
                  \E t \in DOMAIN indexes : indexes[t] = suggestions[k].index
    /\ \A c \in DOMAIN output.calls :
         output.calls[c].op = "openAiTranslateTexts" =>
             \A j, k \in DOMAIN output.calls[c].indexes :
                 j < k => output.calls[c].indexes[j] < output.calls[c].indexes[k]

\* the calls of a review that address the document store
StoreCalls ==
    SelectSeq(output.calls,
        LAMBDA call : call.op \notin {"openAiDetectMissingInformation", "openAiTranslateTexts"})

\* C24: the review is a dry run: generateTranslationReview and runTranslationReview
\* address the document store by findByID only, once per locale started, and never
\* by an update, whatever documents, classifications and translations come back.
C24_ReviewOnlyReads ==
    /\ \A c \in DOMAIN StoreCalls : StoreCalls[c].op = "findByID"
    /\ \A c \in DOMAIN output.calls : output.calls[c].op # "update"
    /\ Len(StoreCalls) <= Len(input.locales)

\* C24 witness: a review of two locales returned after loading both documents,
\* classifying existing text and translating candidates
C24_Witness ==
    /\ output.pc = "returned"
    /\ Len(output.locales) = 2
    /\ Len(StoreCalls) = 2
    /\ \E c \in DOMAIN output.calls : output.calls[c].op = "openAiDetectMissingInformation"
    /\ \E c \in DOMAIN output.calls :
          output.calls[c].op = "openAiTranslateTexts" /\ output.calls[c].ok
    /\ \E r \in DOMAIN output.locales : SuggestionsOf(output.locales[r]) # <<>>

\* the document findByID answered for the r-th locale of the request
LoadedForLocale(r) ==
    SelectSeq(output.calls, LAMBDA call : call.op = "findByID")[r].doc

\* the indexes of the fragments with text in a locale document
IndexesWithText(localeDoc) ==
    {i - 1 : i \in {j \in DOMAIN input.items : existingTextOf(localeDoc, input.items[j]) # ""}}

\* C39: in the result of every locale each mismatch names a fragment that has text in
\* the locale document loaded for it, no two mismatches name the same fragment, there
\* are at most existingCount mismatches, existingCount is the number of fragments with
\* text (so with the fragments without text it adds up to the number of items), and
\* the test for a manual review answers yes exactly when there is a mismatch
C39_MismatchesOnlyOnExistingText ==
    \A r \in DOMAIN output.locales :
        LET mismatches == output.locales[r].mismatches.a
            withText == IndexesWithText(LoadedForLocale(r))
            without == {i - 1 : i \in DOMAIN input.items} \ withText
        IN /\ \A m \in DOMAIN mismatches : mismatches[m].index \in withText
           /\ \A m \in DOMAIN mismatches, n \in DOMAIN mismatches :
                  mismatches[m].index = mismatches[n].index => m = n
           /\ output.locales[r].existingCount = Num(Cardinality(withText))
           /\ Len(mismatches) <= output.locales[r].existingCount.n
           /\ output.locales[r].existingCount.n + Cardinality(without) = Len(input.items)
           /\ requiresReview([locales |-> <<output.locales[r]>>]) <=> mismatches # <<>>

\* a review of two fragments returned a locale with text at one of them only, and a
\* mismatch for that one
C39_Witness ==
    /\ output.pc = "returned"
    /\ Len(input.items) = 2
    /\ \E r \in DOMAIN output.locales :
          /\ output.locales[r].existingCount = Num(1)
          /\ Len(output.locales[r].mismatches.a) = 1
          /\ output.locales[r].mismatches.a[1].index = 0
          /\ IndexesWithText(LoadedForLocale(r)) = {0}

----------------------------------------------------------------------------
(* chunkItems (part_007 166-188) under the character budget *)

\* the largest number of fragments of a list given to chunkItems
MaxItems == 3

RECURSIVE Repeat(_, _)
\* a text of n times the text s
Repeat(s, n) ==
    IF n = 0 THEN ""
    ELSE LET half == Repeat(s, n \div 2)
         IN IF n % 2 = 0 THEN half \o half ELSE half \o half \o s

\* texts of one character, of half the budget, of one more than half, of the budget
\* and of one more than the budget
BudgetTexts ==
    { Repeat("a", n) :
        n \in { 1, MAX_CHARS_PER_CHUNK \div 2, MAX_CHARS_PER_CHUNK \div 2 + 1,
                MAX_CHARS_PER_CHUNK, MAX_CHARS_PER_CHUNK + 1 } }

\* The lists of fragments given to chunkItems: up to MaxItems fragments, each with its
\* place in the list and one of the texts
FragmentLists ==
    UNION { { [i \in 1..n |-> [index |-> i - 1, text |-> texts[i]]] :
                texts \in [1..n -> BudgetTexts] } : n \in 0..MaxItems }

ChunkInit ==
    /\ StreamIdle
    /\ ReviewIdle
    /\ BulkIdle
    /\ input \in FragmentLists
    /\ output = Null

\* chunkItems(items)
CallChunkItems ==
    /\ output' = [fn |-> "chunkItems", value |-> chunkItems(input)]
    /\ UNCHANGED <<input, streamVars, reviewVars, bulkVars>>

ChunkNext == CallChunkItems

ChunkSpec == ChunkInit /\ [][ChunkNext]_vars

\* the number of characters of the texts of a batch
BatchLength(batch) == SumLen([k \in DOMAIN batch |-> batch[k].text])

\* C25: chunkItems returns only non-empty batches whose concatenation, in order, is
\* the input list; every batch of more than one fragment has a total text length of at
\* most 3200 characters, and a batch exceeds the budget only if it holds exactly one
\* fragment.
C25_BatchesWithinBudget ==
    output # Null =>
        /\ \A c \in DOMAIN output.value : output.value[c] # <<>>
        /\ Flatten(output.value) = input
        /\ \A c \in DOMAIN output.value :
              Len(output.value[c]) > 1 => BatchLength(output.value[c]) <= 3200
        /\ \A c \in DOMAIN output.value :
              BatchLength(output.value[c]) > 3200 => Len(output.value[c]) = 1

\* C25 witness: three fragments of 1600, 1601 and 3201 characters came back as three
\* batches, the last one over the budget on its own
C25_Witness ==
    /\ output # Null
    /\ Len(input) = 3
    /\ Len(input[1].text) = 1600 /\ Len(input[2].text) = 1601 /\ Len(input[3].text) = 3201
    /\ Len(output.value) = 3
    /\ BatchLength(output.value[3]) > 3200

----------------------------------------------------------------------------
(* The rich-text codec of utils/lexical.ts: serializeLexicalValue and toLexical
   with a template.  A text is a sequence of tokens: a character, the start
   marker [[LEX-n]] or the end marker [[/LEX-n]]. *)

\* a character of a text
Ch(c) == [c |-> c]

NL == Ch("\n")

\* lexical.ts 61-63
createStartToken(index) == [open |-> index]

\* lexical.ts 65-67
createEndToken(index) == [close |-> index]

\* a text of characters
Chars(cs) == [i \in DOMAIN cs |-> Ch(cs[i])]

\* a text node holding a text of tokens
TextLeaf(text) == Obj([type |-> Str("text"), text |-> Str(text)])

\* a node of a type with children
Container(type, children) == Obj([type |-> Str(type), children |-> Arr(children)])

LineBreak == Obj([type |-> Str("linebreak")])

\* lexical.ts 69-80
getChildren(node) ==
    IF Get(node, "children").k = "arr" THEN Get(node, "children").a ELSE <<>>

\* lexical.ts 82-89
isTextNode(node) ==
    /\ node.k = "obj"
    /\ Get(node, "type") = Str("text")
    /\ Get(node, "text").k = "str"

\* lexical.ts 91-95
isLineBreak(node) == node.k = "obj" /\ Get(node, "type") = Str("linebreak")

\* lexical.ts 97-101
isListItem(node) == node.k = "obj" /\ Get(node, "type") = Str("listitem")

\* every text node takes ordinal 0
ordinalZero(paths) == 0

\* lexical.ts 115: the ordinal of the next text node
nextOrdinal(paths) == Len(paths)

RECURSIVE collectSerialized(_, _, _, _)
RECURSIVE collectEach(_, _, _, _, _)
\* lexical.ts 103-144, on acc = [parts, paths]
collectSerialized(node, depth, path, acc) ==
    IF isTextNode(node)
    THEN IF Get(node, "text").s = <<>> THEN acc
         ELSE LET index == nextOrdinal(acc.paths)
              IN [parts |-> Append(acc.parts,
                                <<createStartToken(index)>> \o Get(node, "text").s
                                    \o <<createEndToken(index)>>),
                  paths |-> Append(acc.paths, path)]
    ELSE IF isLineBreak(node)
    THEN [acc EXCEPT !.parts = Append(@, <<NL>>)]
    ELSE LET children == getChildren(node)
             after == collectEach(children, 1, depth + 1, path, acc)
         IN IF children = <<>> THEN acc
            ELSE IF isListItem(node)
            THEN [after EXCEPT !.parts = Append(@, <<NL>>)]
            ELSE IF depth = 1 /\ Len(after.parts) > Len(acc.parts)
            THEN [after EXCEPT !.parts = Append(@, <<NL, NL>>)]
            ELSE after

\* lexical.ts 135-137 and 255-257: children.forEach from the k-th child on
collectEach(children, k, depth, path, acc) ==
    IF k > Len(children) THEN acc
    ELSE collectEach(children, k + 1, depth, path,
                     collectSerialized(children[k], depth, Append(path, k - 1), acc))

RECURSIVE collapseNewlines(_, _)
\* text.replace(/\n{3,}/g, '\n\n'), run = the newlines just before the text
collapseNewlines(text, run) ==
    IF text = <<>> THEN <<>>
    ELSE IF Head(text) = NL
    THEN (IF run >= 2 THEN <<>> ELSE <<NL>>) \o collapseNewlines(Tail(text), run + 1)
    ELSE <<Head(text)>> \o collapseNewlines(Tail(text), 0)

RECURSIVE stripTrailingNewlines(_)
\* text.replace(/\n+$/, '')
stripTrailingNewlines(text) ==
    IF text # <<>> /\ text[Len(text)] = NL
    THEN stripTrailingNewlines(SubSeq(text, 1, Len(text) - 1))
    ELSE text

\* lexical.ts 241-268
serializeLexicalValue(value) ==
    IF ~isLexicalValue(value) THEN Null
    ELSE LET children == getChildren(Get(value, "root"))
             acc == collectEach(children, 1, 1, <<>>, [parts |-> <<>>, paths |-> <<>>])
         IN IF children = <<>> \/ acc.paths = <<>> THEN Null
            ELSE [paths |-> acc.paths,
                  text |-> stripTrailingNewlines(collapseNewlines(Flatten(acc.parts), 0))]

RECURSIVE matchAll(_)
\* matchAll(PLACEHOLDER_PATTERN) (lexical.ts 4, 147): from the left, a start
\* marker that has an end marker of its ordinal after it matches up to the first such
\* end marker, and the search goes on behind it
matchAll(text) ==
    LET closes(p) == {q \in DOMAIN text : q > p /\ text[q] = createEndToken(text[p].open)}
        starts == {p \in DOMAIN text : "open" \in DOMAIN text[p] /\ closes(p) # {}}
    IN IF starts = {} THEN <<>>
       ELSE LET p == CHOOSE a \in starts : \A b \in starts : a <= b
                q == CHOOSE a \in closes(p) : \A b \in closes(p) : a <= b
            IN <<[index |-> text[p].open, content |-> SubSeq(text, p + 1, q - 1)]>>
                   \o matchAll(SubSeq(text, q + 1, Len(text)))

\* lexical.ts 160-175 without the loop over the ordinals: only the count is compared
ordinalsCounted(indexes, expected) == Cardinality(indexes) = expected

\* lexical.ts 160-175: values.size === expected and values.has(i) for i < expected
ordinalsComplete(indexes, expected) ==
    /\ Cardinality(indexes) = expected
    /\ \A i \in 0..(expected - 1) : i \in indexes

\* lexical.ts 146-178: the contents of the marked segments in the order of their
\* ordinals (the last match of an ordinal wins), null without a match or, when a
\* number is expected, unless the ordinals are exactly 0 .. expected - 1
parsePlaceholders(marked, expected) ==
    LET matches == matchAll(marked)
        indexes == {matches[m].index : m \in DOMAIN matches}
        valueOf(index) ==
            LET last == CHOOSE m \in DOMAIN matches :
                            /\ matches[m].index = index
                            /\ \A n \in DOMAIN matches : matches[n].index = index => n <= m
            IN matches[last].content
        ordered == SortedIndexes(indexes)
    IN IF matches = <<>> THEN Null
       ELSE IF expected # Undef /\ ~ordinalsComplete(indexes, expected.n) THEN Null
       ELSE Arr([k \in DOMAIN ordered |-> valueOf(ordered[k])])

RECURSIVE setTextAtPath(_, _, _)
\* lexical.ts 180-200, on a copy: the node with the text of the text node at the path
\* replaced; no change when the path leaves the tree or ends at another node
setTextAtPath(current, path, text) ==
    IF path = <<>> THEN current
    ELSE LET index == Head(path)
             children == getChildren(current)
         IN IF children = <<>> \/ index < 0 \/ index >= Len(children) THEN current
            ELSE LET next == children[index + 1]
                     replaced == IF Len(path) = 1
                                 THEN (IF isTextNode(next)
                                       THEN Obj(Put(next.f, "text", Str(text))) ELSE next)
                                 ELSE setTextAtPath(next, Tail(path), text)
                 IN Obj(Put(current.f, "children",
                            Arr([children EXCEPT ![index + 1] = replaced])))

RECURSIVE setEach(_, _, _, _)
\* lexical.ts 285-287: serialized.paths.forEach from the k-th path on
setEach(root, paths, replacements, k) ==
    IF k > Len(paths) THEN root
    ELSE setEach(setTextAtPath(root, paths[k],
                               IF k \in DOMAIN replacements THEN replacements[k] ELSE <<>>),
                 paths, replacements, k + 1)

\* whitespace of a text: the newline and the blank
IsSpace(token) == token \in {NL, Ch(" ")}

RECURSIVE trimText(_)
\* text.trim()
trimText(text) ==
    IF text # <<>> /\ IsSpace(Head(text)) THEN trimText(Tail(text))
    ELSE IF text # <<>> /\ IsSpace(text[Len(text)])
    THEN trimText(SubSeq(text, 1, Len(text) - 1))
    ELSE text

RECURSIVE splitBlankLines(_, _)
\* trimmed.split(/\n{2,}/): the segments, with the open segment carried along
splitBlankLines(text, segment) ==
    IF text = <<>> THEN <<segment>>
    ELSE IF Len(text) >= 2 /\ text[1] = NL /\ text[2] = NL
    THEN LET run == CHOOSE n \in 2..Len(text) :
                        /\ \A i \in 1..n : text[i] = NL
                        /\ (n = Len(text) \/ text[n + 1] # NL)
         IN <<segment>> \o splitBlankLines(SubSeq(text, run + 1, Len(text)), <<>>)
    ELSE splitBlankLines(Tail(text), Append(segment, Head(text)))

\* lexical.ts 202-226 on a text of tokens: one paragraph per segment between blank
\* lines, with the trimmed segment as its text node or without child
createFallbackLexicalOf(text) ==
    LET trimmed == trimText(text)
        segments == IF trimmed # <<>>
                    THEN [k \in DOMAIN splitBlankLines(trimmed, <<>>) |->
                             trimText(splitBlankLines(trimmed, <<>>)[k])]
                    ELSE << <<>> >>
    IN LexicalOf([k \in DOMAIN segments |->
                     Container("paragraph",
                         IF segments[k] # <<>> THEN <<TextLeaf(segments[k])>> ELSE <<>>)])

\* the value itself is handed out, so that a write to the copy is a write to the value
cloneByReference(value) == [copy |-> value, shared |-> TRUE]

\* lexical.ts 24-34: a deep copy, which shares nothing with the value
cloneValue(value) == [copy |-> value, shared |-> FALSE]

\* lexical.ts 278-296: toLexical(text, template); value is what it returns, template
\* is the template object after the call
toLexicalTemplate(text, template) ==
    LET serialized == IF Truthy(template) /\ isLexicalValue(template)
                      THEN serializeLexicalValue(template) ELSE Null
        expected == IF serialized # Null
                    THEN parsePlaceholders(text, Num(Len(serialized.paths))) ELSE Null
        replacements == parsePlaceholders(text, Undef)
        clone == cloneValue(template)
        written == Obj(Put(clone.copy.f, "root",
                           setEach(Get(clone.copy, "root"), serialized.paths, expected.a, 1)))
    IN IF expected # Null
       THEN [value |-> written, template |-> IF clone.shared THEN written ELSE template]
       ELSE [value |-> createFallbackLexicalOf(IF replacements # Null
                                               THEN Flatten(replacements.a) ELSE text),
             template |-> template]

\* The texts of the text nodes: none, a word, two lines, and two words three newlines
\* apart
LeafTexts ==
    { <<>>, Chars(<<"a">>), Chars(<<"a", "\n", "b">>),
      Chars(<<"a", "\n", "\n", "\n", "b">>) }

\* The rich texts given to the codec: a paragraph of two text nodes around a line
\* break, two paragraphs, a list of two items with the second text one level deeper,
\* and a text node at top level next to an empty paragraph and a heading; then values
\* without text node, without child and without root
LexicalValues ==
    UNION { { LexicalOf(<<Container("paragraph", <<TextLeaf(s), LineBreak, TextLeaf(t)>>)>>),
              LexicalOf(<<Container("paragraph", <<TextLeaf(s)>>),
                          Container("paragraph", <<TextLeaf(t)>>)>>),
              LexicalOf(<<Container("list",
                            <<Container("listitem", <<TextLeaf(s)>>),
                              Container("listitem",
                                  <<Container("paragraph", <<TextLeaf(t)>>)>>)>>)>>),
              LexicalOf(<<TextLeaf(s), Container("paragraph", <<>>),
                          Container("heading", <<TextLeaf(t)>>)>>) } :
            s \in LeafTexts, t \in LeafTexts }
    \cup { LexicalOf(<<Container("paragraph", <<LineBreak>>)>>), LexicalOf(<<>>),
            Obj([type |-> Str("root")]) }

\* What comes back for the i-th marked segment: the segment as it was sent, or a new
\* text that tells the segments apart (two lines for the first, a word for the others)
Segment(change, i, sent) ==
    IF change = "none" \/ (change = "first" /\ i > 0) THEN sent
    ELSE IF i = 0 THEN Chars(<<"x", "\n", "\n", "\n", "y">>) ELSE Chars(<<"z">>)

RECURSIVE Retext(_, _)
\* a marked text with the content of every marked segment exchanged
Retext(text, change) ==
    IF text = <<>> THEN <<>>
    ELSE IF "open" \in DOMAIN Head(text)
    THEN LET n == Head(text).open
             q == CHOOSE a \in DOMAIN text :
                      /\ text[a] = createEndToken(n)
                      /\ \A b \in DOMAIN text : text[b] = createEndToken(n) => a <= b
         IN <<Head(text)>> \o Segment(change, n, SubSeq(text, 2, q - 1)) \o <<text[q]>>
                \o Retext(SubSeq(text, q + 1, Len(text)), change)
    ELSE <<Head(text)>> \o Retext(Tail(text), change)

LexicalInit ==
    /\ StreamIdle
    /\ ReviewIdle
    /\ BulkIdle
    /\ input \in { [tree |-> v, change |-> c] :
                      v \in LexicalValues, c \in {"none", "first", "all"} }
    /\ output = Null

\* serializeLexicalValue(tree)
CallSerializeLexicalValue ==
    /\ output' = [fn |-> "serializeLexicalValue", value |-> serializeLexicalValue(input.tree)]
    /\ UNCHANGED <<input, streamVars, reviewVars, bulkVars>>

\* toLexical(text, tree) on the serialized text of the tree with the segments as they
\* come back
CallToLexical ==
    /\ serializeLexicalValue(input.tree) # Null
    /\ LET marked == Retext(serializeLexicalValue(input.tree).text, input.change)
           returned == toLexicalTemplate(marked, input.tree)
       IN output' = [fn |-> "toLexical", marked |-> marked, value |-> returned.value,
                     template |-> returned.template]
    /\ UNCHANGED <<input, streamVars, reviewVars, bulkVars>>

\* What a translator may make of a marked text: return it intact, number the markers
\* from one, lose the markers of the last segment, lose all markers, add a segment,
\* lose the end marker of the first segment, or repeat the first ordinal
Damages == {"intact", "shift", "dropLast", "strip", "extra", "unclosed", "double"}

\* the marked text after the damage; leaves is the number of marked segments
Damage(text, kind, leaves) ==
    CASE kind = "shift" ->
            [i \in DOMAIN text |->
                IF "open" \in DOMAIN text[i] THEN createStartToken(text[i].open + 1)
                ELSE IF "close" \in DOMAIN text[i] THEN createEndToken(text[i].close + 1)
                ELSE text[i]]
      [] kind = "dropLast" ->
            SelectSeq(text, LAMBDA token : token \notin {createStartToken(leaves - 1),
                                                         createEndToken(leaves - 1)})
      [] kind = "strip" -> SelectSeq(text, LAMBDA token : "c" \in DOMAIN token)
      [] kind = "extra" ->
            text \o <<NL, NL, createStartToken(leaves), Ch("x"), createEndToken(leaves)>>
      [] kind = "unclosed" -> SelectSeq(text, LAMBDA token : token # createEndToken(0))
      [] kind = "double" -> text \o <<createStartToken(0), Ch("w"), createEndToken(0)>>
      [] OTHER -> text

\* the text a translator was sent for a tree: its serialized text, or for a tree
\* without text a marked word and a second paragraph
SentFor(tree) ==
    IF serializeLexicalValue(tree) # Null THEN serializeLexicalValue(tree).text
    ELSE <<createStartToken(0), Ch("a"), createEndToken(0), NL, NL, Ch(" "), Ch("b")>>

\* toLexical(text, template) and toLexical(text) on a text whose markers may have
\* suffered
CallToLexicalDamaged ==
    /\ \E damage \in Damages, given \in BOOLEAN :
          LET leaves == IF serializeLexicalValue(input.tree) # Null
                        THEN Len(serializeLexicalValue(input.tree).paths) ELSE 1
              text == Damage(SentFor(input.tree), damage, leaves)
              template == IF given THEN input.tree ELSE Undef
              returned == toLexicalTemplate(text, template)
          IN output' = [fn |-> "toLexical damaged", text |-> text, template |-> template,
                        value |-> returned.value]
    /\ UNCHANGED <<input, streamVars, reviewVars, bulkVars>>

LexicalNext ==
    \/ CallSerializeLexicalValue
    \/ CallToLexical
    \/ CallToLexicalDamaged

LexicalSpec == LexicalInit /\ [][LexicalNext]_vars

RECURSIVE LeavesOf(_, _)
RECURSIVE LeavesOfEach(_, _, _)
\* the text nodes with text below a node, depth first, each with its child-index
\* address and its text
LeavesOf(node, path) ==
    IF isTextNode(node)
    THEN (IF Get(node, "text").s = <<>> THEN <<>>
          ELSE <<[path |-> path, text |-> Get(node, "text").s]>>)
    ELSE LeavesOfEach(getChildren(node), path, 1)

LeavesOfEach(children, path, k) ==
    IF k > Len(children) THEN <<>>
    ELSE LeavesOf(children[k], Append(path, k - 1)) \o LeavesOfEach(children, path, k + 1)

\* the text-bearing leaves of a rich text in document order, none for another value
TextLeaves(value) ==
    IF isLexicalValue(value) THEN LeavesOf(Get(value, "root"), <<>>) ELSE <<>>

\* the markers of a text, in order
Markers(text) == SelectSeq(text, LAMBDA token : "c" \notin DOMAIN token)

\* the content between the start and the end marker of an ordinal
Between(text, n) ==
    LET p == CHOOSE a \in DOMAIN text : text[a] = createStartToken(n)
        q == CHOOSE a \in DOMAIN text : text[a] = createEndToken(n)
    IN SubSeq(text, p + 1, q - 1)

\* a text without its newlines
Letters(text) == SelectSeq(text, LAMBDA token : token # NL)

RECURSIVE Skeleton(_)
\* a node with the text of every text-bearing leaf below it blanked out
Skeleton(node) ==
    IF isTextNode(node)
    THEN (IF Get(node, "text").s = <<>> THEN node ELSE Obj(Put(node.f, "text", Str(<<>>))))
    ELSE IF getChildren(node) = <<>> THEN node
    ELSE Obj(Put(node.f, "children",
                 Arr([k \in DOMAIN getChildren(node) |-> Skeleton(getChildren(node)[k])])))

\* a rich text with the text of every text-bearing leaf blanked out
Structure(value) == Obj(Put(value.f, "root", Skeleton(Get(value, "root"))))

\* the texts of the text-bearing leaves of a rich text, in document order
LeafTextsOf(value) == [i \in DOMAIN TextLeaves(value) |-> TextLeaves(value)[i].text]

\* a text holds three newlines in a row
LongRun(text) ==
    \E i \in DOMAIN text : i + 2 \in DOMAIN text /\ \A j \in i..(i + 2) : text[j] = NL

\* toLexical answered for the serialized text of the tree
Deserialized == output # Null /\ output.fn = "toLexical"

\* C26 as claimed: toLexical(serializeLexicalValue(tree).text, tree) returns a tree
\* equal to the original when the marked segments are unchanged, and with replaced
\* segments a tree equal to the original except that the i-th leaf holds segment i;
\* the original tree is not mutated. For every leaf text, runs of newlines included.
C26_RoundTripKeepsEveryText ==
    Deserialized =>
        /\ input.change = "none" => output.value = input.tree
        /\ Structure(output.value) = Structure(input.tree)
        /\ LeafTextsOf(output.value) =
               [i \in DOMAIN TextLeaves(input.tree) |->
                   Segment(input.change, i - 1, TextLeaves(input.tree)[i].text)]
        /\ output.template = input.tree

\* C26, amended: toLexical(serializeLexicalValue(tree).text, tree) returns a tree equal
\* to the original except for the texts of the text-bearing leaves, the i-th leaf
\* holding the content of the marked segment i as toLexical received it; the original
\* tree is not mutated; with unchanged segments the tree is equal to the original
\* when no leaf text holds three or more newlines in a row, and otherwise differs in
\* such leaves only, whose runs come back as two newlines.
C26_RoundTripKeepsStructure ==
    Deserialized =>
        /\ Structure(output.value) = Structure(input.tree)
        /\ LeafTextsOf(output.value) =
               [i \in DOMAIN TextLeaves(input.tree) |-> Between(output.marked, i - 1)]
        /\ output.template = input.tree
        /\ input.change = "none" =>
              /\ (\A i \in DOMAIN TextLeaves(input.tree) :
                     ~LongRun(TextLeaves(input.tree)[i].text)) => output.value = input.tree
              /\ \A i \in DOMAIN TextLeaves(input.tree) :
                    LeafTextsOf(output.value)[i] =
                        collapseNewlines(TextLeaves(input.tree)[i].text, 0)

\* C26 witness: the two texts of a list, the second one level deeper, came back
\* exchanged for the two new segments, the first holding three newlines in a row
C26_Witness ==
    /\ Deserialized
    /\ input.change = "all"
    /\ [i \in DOMAIN TextLeaves(input.tree) |-> TextLeaves(input.tree)[i].path]
          = << <<0, 0, 0>>, <<0, 1, 0, 0>> >>
    /\ LeafTextsOf(output.value) = <<Chars(<<"x", "\n", "\n", "\n", "y">>), Chars(<<"z">>)>>
    /\ output.value # input.tree

\* C27: serializeLexicalValue on a tree with K text-bearing leaves produces exactly K
\* marker pairs with the ordinals 0..K-1 in document (depth-first) order, paths[i] is
\* the child-index address of the leaf wrapped by ordinal i, and it returns null when
\* the tree has no text-bearing leaf.
C27_MarkersNumberLeaves ==
    (output # Null /\ output.fn = "serializeLexicalValue") =>
        LET leaves == TextLeaves(input.tree)
        IN IF leaves = <<>> THEN output.value = Null
           ELSE /\ output.value # Null
                /\ Markers(output.value.text) =
                       [j \in 1..(2 * Len(leaves)) |->
                           IF j % 2 = 1 THEN createStartToken((j - 1) \div 2)
                           ELSE createEndToken((j \div 2) - 1)]
                /\ output.value.paths = [i \in DOMAIN leaves |-> leaves[i].path]
                /\ \A i \in DOMAIN leaves :
                      Letters(Between(output.value.text, i - 1)) = Letters(leaves[i].text)

\* C27 witness: the list whose second text lies one level deeper than the first was
\* serialized with two marker pairs and the addresses 0.0.0 and 0.1.0.0
C27_Witness ==
    /\ output # Null /\ output.fn = "serializeLexicalValue"
    /\ output.value # Null
    /\ output.value.paths = << <<0, 0, 0>>, <<0, 1, 0, 0>> >>
    /\ Len(Markers(output.value.text)) = 4

\* the ordinals of the marked segments of a text: start markers with an end marker of
\* their ordinal behind them
MarkedOrdinals(text) ==
    {text[p].open : p \in {a \in DOMAIN text :
                             /\ "open" \in DOMAIN text[a]
                             /\ \E q \in DOMAIN text :
                                   q > a /\ text[q] = createEndToken(text[a].open)}}

\* the content of the last marked segment of an ordinal
ContentOf(text, n) ==
    LET starts == {a \in DOMAIN text : /\ text[a] = createStartToken(n)
                                      /\ \E q \in DOMAIN text :
                                            q > a /\ text[q] = createEndToken(n)}
        p == CHOOSE a \in starts : \A b \in starts : b <= a
        q == CHOOSE a \in DOMAIN text :
                 /\ a > p /\ text[a] = createEndToken(n)
                 /\ \A b \in DOMAIN text : (b > p /\ text[b] = createEndToken(n)) => a <= b
    IN SubSeq(text, p + 1, q - 1)

\* the plain text of a text: the contents of its marked segments by ordinal, or the
\* text itself when it has none
PlainOf(text) ==
    IF MarkedOrdinals(text) = {} THEN text
    ELSE Flatten([k \in DOMAIN SortedIndexes(MarkedOrdinals(text)) |->
                     ContentOf(text, SortedIndexes(MarkedOrdinals(text))[k])])

\* a text without whitespace
Solid(text) == SelectSeq(text, LAMBDA token : ~IsSpace(token))

\* a rich text of paragraphs only, at least one, each empty or holding one text node
\* whose text is trimmed and has no blank line; together the texts are the plain text
ParagraphPerBlankLine(value, plain) ==
    LET children == getChildren(Get(value, "root"))
        textOf(k) == IF getChildren(children[k]) = <<>> THEN <<>>
                     ELSE Get(getChildren(children[k])[1], "text").s
    IN /\ isLexicalValue(value)
       /\ children # <<>>
       /\ \A k \in DOMAIN children :
             /\ Get(children[k], "type") = Str("paragraph")
             /\ Len(getChildren(children[k])) <= 1
             /\ \A c \in DOMAIN getChildren(children[k]) :
                   /\ isTextNode(getChildren(children[k])[c])
                   /\ textOf(k) # <<>>
                   /\ trimText(textOf(k)) = textOf(k)
                   /\ \A i \in DOMAIN textOf(k) :
                         ~(textOf(k)[i] = NL /\ i + 1 \in DOMAIN textOf(k)
                                             /\ textOf(k)[i + 1] = NL)
       /\ Solid(Flatten([k \in DOMAIN children |-> textOf(k)])) = Solid(plain)

\* toLexical answered for a text whose markers may have suffered
Redone == output # Null /\ output.fn = "toLexical damaged"

\* the template can be used for the text: it is given, it has K > 0 text-bearing leaves
\* and the ordinals of the text's marked segments are exactly 0..K-1
TemplateUsable ==
    /\ output.template # Undef
    /\ serializeLexicalValue(output.template) # Null
    /\ MarkedOrdinals(output.text) = 0..(Len(TextLeaves(output.template)) - 1)

\* the root of a rich text has a paragraph among its children
HasParagraph(value) ==
    \E k \in DOMAIN getChildren(Get(value, "root")) :
        Get(getChildren(Get(value, "root"))[k], "type") = Str("paragraph")

\* C35 as claimed: toLexical always returns a root of type 'root' with at least one
\* paragraph child, and when the markers are missing, are not exactly the ordinals
\* 0..K-1 of the template's K leaves, or no template is given, the tree is the
\* paragraph-per-blank-line tree of the plain text
C35_AlwaysAParagraph ==
    Redone =>
        /\ isLexicalValue(output.value)
        /\ HasParagraph(output.value)
        /\ ~TemplateUsable => ParagraphPerBlankLine(output.value, PlainOf(output.text))

\* C35, amended: toLexical always returns a root of type 'root' with at least one child;
\* when the markers are missing, are not exactly the ordinals 0..K-1 of the template's
\* K leaves, or no template is given, the tree is the paragraph-per-blank-line tree of
\* the plain text (paragraphs only, at least one), and otherwise it has the structure
\* of the template, whose blocks need not be paragraphs
C35_FallbackOnMarkerMismatch ==
    Redone =>
        /\ isLexicalValue(output.value)
        /\ getChildren(Get(output.value, "root")) # <<>>
        /\ ~TemplateUsable => ParagraphPerBlankLine(output.value, PlainOf(output.text))
        /\ TemplateUsable => Structure(output.value) = Structure(output.template)

\* the markers of the two texts of a list came back numbered 1 and 2: the answer is a
\* tree of paragraphs, not the list
C35_Witness ==
    /\ Redone
    /\ output.template # Undef
    /\ getChildren(Get(output.template, "root")) # <<>>
    /\ Get(getChildren(Get(output.template, "root"))[1], "type") = Str("list")
    /\ MarkedOrdinals(output.text) = {1, 2}
    /\ ParagraphPerBlankLine(output.value, PlainOf(output.text))
    /\ Structure(output.value) # Structure(output.template)

----------------------------------------------------------------------------
(* The translate endpoint: createAiTranslateHandler (handler.ts 27-142) and its
   client performTranslations (performTranslations.ts 27-122) *)

\* a JSON boolean
Bool(b) == [k |-> "bool", b |-> b]

\* handler.ts 13-21: path and text are strings and lexical is a boolean; reading a
\* property of null or undefined throws a TypeError
isTranslateItem(value) ==
    IF value.k \in {"null", "undef"} THEN "TypeError"
    ELSE IF /\ Get(value, "path").k = "str"
            /\ Get(value, "text").k = "str"
            /\ Get(value, "lexical").k = "bool"
    THEN "yes" ELSE "no"

RECURSIVE everyItem(_)
\* list.every(isTranslateItem): yes, no, or the TypeError of the first item that throws
\* before an item fails
everyItem(list) ==
    IF list = <<>> THEN "yes"
    ELSE IF isTranslateItem(Head(list)) = "yes" THEN everyItem(Tail(list))
    ELSE isTranslateItem(Head(list))

RECURSIVE everyChunk(_)
\* handler.ts 23-25 under chunks.every: every chunk is an array of items
everyChunk(chunks) ==
    IF chunks = <<>> THEN "yes"
    ELSE IF Head(chunks).k # "arr" THEN "no"
    ELSE IF everyItem(Head(chunks).a) = "yes" THEN everyChunk(Tail(chunks))
    ELSE everyItem(Head(chunks).a)

\* any code passes
anyCode(code) == TRUE

\* handler.ts 70: typeof code === 'string' && code
hasCode(code) == code.k = "str" /\ code.s # ""

\* handler.ts 61-82: the message thrown for a locale entry, '' when the entry passes
entryError(entry) ==
    LET chunks == Get(entry, "chunks")
        overrides == Get(entry, "overrides")
    IN IF entry.k \notin {"obj", "arr"} THEN "Invalid locale entry"
       ELSE IF ~hasCode(Get(entry, "code"))
       THEN "Elke taal moet een niet-lege locale code bevatten"
       ELSE IF chunks.k # "arr" THEN "Elke taal moet geldige vertaalitems bevatten"
       ELSE IF everyChunk(chunks.a) = "TypeError" THEN "TypeError"
       ELSE IF everyChunk(chunks.a) = "no" THEN "Elke taal moet geldige vertaalitems bevatten"
       ELSE IF overrides.k = "undef" THEN ""
       ELSE IF overrides.k # "arr" THEN "Elke taal moet geldige overrides bevatten"
       ELSE IF everyItem(overrides.a) = "TypeError" THEN "TypeError"
       ELSE IF everyItem(overrides.a) = "no" THEN "Elke taal moet geldige overrides bevatten"
       ELSE ""

\* handler.ts 84-88: the entry as parseBody keeps it
parsedLocale(entry) ==
    [chunks |-> Get(entry, "chunks"), code |-> Get(entry, "code"),
     overrides |-> IF Get(entry, "overrides").k = "arr" /\ Get(entry, "overrides").a # <<>>
                   THEN Get(entry, "overrides") ELSE Undef]

\* handler.ts 27-96: the request parseBody returns, or the message it throws
parseBody(body) ==
    LET from == Get(body, "from")
        collection == Get(body, "collection")
        identifier == Get(body, "id")
        locales == Get(body, "locales")
        failing == {e \in DOMAIN locales.a : entryError(locales.a[e]) # ""}
        thrown(message) == [ok |-> FALSE, message |-> message]
    IN IF body.k \notin {"obj", "arr"} THEN thrown("Invalid JSON body")
       ELSE IF from.k # "str" \/ from.s = "" THEN thrown("Missing \"from\" locale")
       ELSE IF collection.k # "str" \/ collection.s = ""
       THEN thrown("Missing \"collection\" slug")
       ELSE IF identifier.k \notin {"str", "num"} THEN thrown("Missing document \"id\"")
       ELSE IF identifier.k = "str" /\ identifier.s = ""
       THEN thrown("Missing document \"id\"")
       ELSE IF locales.k # "arr" \/ locales.a = <<>>
       THEN thrown("No target locales provided")
       ELSE IF failing # {}
       THEN thrown(entryError(locales.a[CHOOSE e \in failing : \A f \in failing : e <= f]))
       ELSE [ok |-> TRUE,
             parsed |-> [id |-> identifier, collection |-> collection, from |-> from,
                         locales |-> [e \in DOMAIN locales.a |-> parsedLocale(locales.a[e])]]]

\* a well-formed item, locale entry and body
GoodItem == Obj([path |-> Str("title"), text |-> Str("Hello"), lexical |-> Bool(FALSE)])
GoodEntry == Obj([code |-> Str("nl"), chunks |-> Arr(<<Arr(<<GoodItem>>)>>),
                  overrides |-> Arr(<<GoodItem>>)])
GoodBody == Obj([from |-> Str("en"), collection |-> Str("posts"), id |-> Str("1"),
                 locales |-> Arr(<<GoodEntry>>)])

\* a body with one field given another value, or left out
With(body, field, value) ==
    Obj(IF value = Undef THEN Delete(body.f, field) ELSE Put(body.f, field, value))

\* a body whose single locale entry is the given one
WithEntry(entry) == With(GoodBody, "locales", Arr(<<entry>>))

\* The bodies parseBody accepts: the full one, a numeric id, two entries, an entry
\* without overrides, with no override or with no chunk
GoodBodies ==
    { GoodBody,
      With(GoodBody, "id", Num(7)),
      With(GoodBody, "locales", Arr(<<GoodEntry, With(GoodEntry, "code", Str("de"))>>)),
      WithEntry(With(GoodEntry, "overrides", Undef)),
      WithEntry(With(GoodEntry, "overrides", Arr(<<>>))),
      WithEntry(With(GoodEntry, "chunks", Arr(<<>>))) }

\* The malformed bodies: no object; from, collection or id missing, empty or of another
\* type; locales missing, no array or empty; an entry that is no object, has no code or
\* an empty one, chunks that are missing, no array, hold a chunk that is no array or
\* an item that is null or lacks a field; overrides that are no array or hold a bad
\* item; and a bad entry behind a good one
BadBodies ==
    { Null, Str("x") }
    \cup { With(GoodBody, field, value) :
             field \in {"from", "collection", "id"}, value \in {Undef, Str(""), Bool(TRUE)} }
    \cup { With(GoodBody, "from", Num(7)), With(GoodBody, "locales", Undef),
           With(GoodBody, "locales", Str("nl")), With(GoodBody, "locales", Arr(<<>>)),
           WithEntry(Null), WithEntry(Str("nl")),
           With(GoodBody, "locales", Arr(<<GoodEntry, With(GoodEntry, "code", Str(""))>>)) }
    \cup { WithEntry(With(GoodEntry, "code", value)) : value \in {Undef, Str(""), Num(7)} }
    \cup { WithEntry(With(GoodEntry, "chunks", value)) :
             value \in { Undef, Str("x"), Arr(<<GoodItem>>), Arr(<<Arr(<<Null>>)>>),
                         Arr(<<Arr(<<GoodItem, With(GoodItem, "lexical", Undef)>>)>>),
                         Arr(<<Arr(<<With(GoodItem, "path", Num(7))>>)>>) } }
    \cup { WithEntry(With(GoodEntry, "overrides", value)) :
             value \in { Null, Str("x"), Arr(<<With(GoodItem, "text", Undef)>>),
                         Arr(<<Arr(<<GoodItem>>)>>) } }

\* a request body that is no JSON text: req.json() throws
Unparsable == [k |-> "invalid"]

\* the events of the stream (types.ts TranslateStreamEvent); a message is a text of
\* characters
progressEvent(locale, count, total) ==
    [type |-> "progress", locale |-> locale, completed |-> count, total |-> total]
appliedEvent(locale) == [type |-> "applied", locale |-> locale]
doneEvent == [type |-> "done"]
errorEvent(message) == [type |-> "error", message |-> message]

\* the messages of error events and exceptions: a word, two lines, and none
Messages == { <<"E">>, <<"E", "\n", "r">>, <<>> }

\* What streamTranslations does when the handler iterates it: the events it yields,
\* then its end by return or by an exception with a message (or a thrown value that is
\* no Error); calls holds the number of calls it made to the document store and the
\* translator before each event and before the exception. A run returns right after
\* its 'done' or 'error' and in no other way (stream.ts 102-291).
Executions ==
    { [events |-> <<progressEvent("nl", 1, 1), appliedEvent("nl"), doneEvent>>,
       calls |-> <<2, 1, 0>>, end |-> "return", message |-> <<>>],
      [events |-> <<progressEvent("nl", 1, 2), progressEvent("nl", 2, 2), appliedEvent("nl"),
                    doneEvent>>,
       calls |-> <<2, 1, 1, 0>>, end |-> "return", message |-> <<>>],
      [events |-> <<progressEvent("nl", 1, 1)>>,
       calls |-> <<2, 1>>, end |-> "throw", message |-> <<"E">>],
      [events |-> <<>>, calls |-> <<1>>, end |-> "throwValue", message |-> <<>>] }
    \cup { [events |-> <<errorEvent(m)>>, calls |-> <<0>>, end |-> "return",
            message |-> <<>>] : m \in Messages }
    \cup { [events |-> <<progressEvent("nl", 1, 1), errorEvent(m)>>, calls |-> <<2, 1>>,
            end |-> "return", message |-> <<>>] : m \in Messages \ {<<>>} }

RECURSIVE escape(_)
\* JSON.stringify of the characters of a string: a newline and a backslash are escaped
escape(chars) ==
    IF chars = <<>> THEN <<>>
    ELSE (CASE Head(chars) = "\n" -> <<"\\", "n">>
            [] Head(chars) = "\\" -> <<"\\", "\\">>
            [] OTHER -> <<Head(chars)>>) \o escape(Tail(chars))

RECURSIVE unescape(_)
\* the characters of a JSON string; <<"invalid">> marks a text JSON.parse refuses
unescape(chars) ==
    IF chars = <<>> THEN <<>>
    ELSE IF Head(chars) = "\n" THEN <<"invalid">>
    ELSE IF Head(chars) = "\\"
    THEN (IF Len(chars) < 2 \/ chars[2] \notin {"n", "\\"} THEN <<"invalid">>
          ELSE LET rest == unescape(SubSeq(chars, 3, Len(chars)))
               IN IF rest = <<"invalid">> THEN rest
                  ELSE <<IF chars[2] = "n" THEN "\n" ELSE "\\">> \o rest)
    ELSE LET rest == unescape(Tail(chars))
         IN IF rest = <<"invalid">> THEN rest ELSE <<Head(chars)>> \o rest

\* JSON.stringify(event) as a text of characters and atoms
stringify(event) ==
    CASE event.type = "progress" ->
             <<"{", "progress", event.locale, ToString(event.completed),
               ToString(event.total), "}">>
      [] event.type = "applied" -> <<"{", "applied", event.locale, "}">>
      [] event.type = "done" -> <<"{", "done", "}">>
      [] event.type = "error" -> <<"{", "error">> \o escape(event.message) \o <<"}">>

\* the number a decimal atom stands for
NumberFrom(atom) == CHOOSE n \in 0..9 : ToString(n) = atom

\* JSON.parse(line) for the lines of the stream: the event, or null where it throws
parseLine(line) ==
    IF Len(line) < 3 \/ line[1] # "{" \/ line[Len(line)] # "}" THEN Null
    ELSE CASE line[2] = "progress" /\ Len(line) = 6 ->
                  progressEvent(line[3], NumberFrom(line[4]), NumberFrom(line[5]))
           [] line[2] = "applied" /\ Len(line) = 4 -> appliedEvent(line[3])
           [] line[2] = "done" /\ Len(line) = 3 -> doneEvent
           [] line[2] = "error" /\ unescape(SubSeq(line, 3, Len(line) - 1)) # <<"invalid">> ->
                  errorEvent(unescape(SubSeq(line, 3, Len(line) - 1)))
           [] OTHER -> Null

\* handler.ts 98-100: the bytes of an event's line
serializeEvent(event) == stringify(event) \o <<"\n">>

\* the largest number of bytes of a network chunk that is not all the bytes on the way
MaxChunk == 3

\* the exception is swallowed: no line is written for it
onThrowSilent(lines, message) == lines

\* handler.ts 116-119: the catch block writes the line of an error event
onThrow(lines, message) == Append(lines, serializeEvent(errorEvent(message)))

\* handler.ts 113: the event ends the stream
isTerminal(event) == event.type \in {"error", "done"}

\* The inputs of the endpoint: a body with what the executor does for it; the bodies
\* that are refused come with one execution, which is never started
EndpointInputs ==
    { [body |-> b, run |-> r] : b \in GoodBodies, r \in Executions }
    \cup { [body |-> b,
            run |-> [events |-> <<doneEvent>>, calls |-> <<1>>, end |-> "return",
                     message |-> <<>>]] : b \in BadBodies \cup {Unparsable} }

\* the handler before the request and the client before its call
EndpointFrame ==
    [pc |-> "idle", response |-> Null, parsed |-> Null, started |-> FALSE, at |-> 0,
     storeCalls |-> 0, emitted |-> <<>>, lines |-> <<>>, closed |-> FALSE, wire |-> <<>>,
     cpc |-> "start", buffer |-> <<>>, callbacks |-> <<>>, stop |-> FALSE,
     finished |-> FALSE, hadError |-> FALSE, result |-> Null]

EndpointInit ==
    /\ StreamIdle
    /\ ReviewIdle
    /\ BulkIdle
    /\ input \in EndpointInputs
    /\ output = EndpointFrame

\* performTranslations.ts 31-46: onStart, then the request is sent
ClientStart ==
    /\ output.cpc = "start"
    /\ output' = [output EXCEPT !.callbacks = Append(@, [cb |-> "onStart"]),
                                !.cpc = "fetching"]
    /\ UNCHANGED <<input, streamVars, reviewVars, bulkVars>>

\* handler.ts 104-140: the body is parsed; a body that cannot be read or parsed is
\* answered with the 400 JSON response, another one with the response of a stream
\* whose start begins to iterate streamTranslations(payload, parsed)
HandleRequest ==
    /\ output.cpc = "fetching"
    /\ output.pc = "idle"
    /\ LET read == IF input.body = Unparsable
                   THEN [ok |-> FALSE, message |-> "Unexpected token"]
                   ELSE parseBody(input.body)
       IN IF ~read.ok
          THEN output' = [output EXCEPT
                   !.response = [status |-> 400, json |-> [type |-> "error",
                                                             message |-> read.message]],
                   !.pc = "rejected"]
          ELSE output' = [output EXCEPT
                   !.response = [status |-> 200, json |-> Null],
                   !.parsed = read.parsed,
                   !.started = TRUE,
                   !.pc = "streaming"]
    /\ UNCHANGED <<input, streamVars, reviewVars, bulkVars>>

\* handler.ts 110-115: the next event of the executor is written as a line; the loop
\* ends after an 'error' or a 'done'
Enqueue ==
    /\ output.pc = "streaming"
    /\ output.at < Len(input.run.events)
    /\ LET event == input.run.events[output.at + 1]
       IN output' = [output EXCEPT
              !.at = @ + 1,
              !.storeCalls = @ + input.run.calls[output.at + 1],
              !.emitted = Append(@, event),
              !.lines = Append(@, serializeEvent(event)),
              !.wire = @ \o serializeEvent(event),
              !.pc = IF isTerminal(event) THEN "closing" ELSE "streaming"]
    /\ UNCHANGED <<input, streamVars, reviewVars, bulkVars>>

\* handler.ts 116-119: an exception of the executor is written as the line of an error
\* event with its message, or with the default message for a value that is no Error
CatchException ==
    /\ output.pc = "streaming"
    /\ output.at = Len(input.run.events)
    /\ input.run.end # "return"
    /\ LET message == IF input.run.end = "throw" THEN input.run.message
                      ELSE <<"Failed to sync translations">>
           written == onThrow(output.lines, message)
       IN output' = [output EXCEPT
              !.storeCalls = @ + input.run.calls[output.at + 1],
              !.emitted = IF Len(written) > Len(output.lines)
                          THEN Append(@, errorEvent(message)) ELSE @,
              !.lines = written,
              !.wire = @ \o Flatten(SubSeq(written, Len(output.lines) + 1, Len(written))),
              !.pc = "closing"]
    /\ UNCHANGED <<input, streamVars, reviewVars, bulkVars>>

\* handler.ts 120-122: finally controller.close()
CloseStream ==
    /\ output.pc = "closing"
    /\ output' = [output EXCEPT !.closed = TRUE, !.pc = "ended"]
    /\ UNCHANGED <<input, streamVars, reviewVars, bulkVars>>

\* performTranslations.ts 48-52: a response that is not ok ends the call
UnexpectedResponse ==
    /\ output.cpc = "fetching"
    /\ output.response # Null
    /\ output.response.status # 200
    /\ output' = [output EXCEPT
           !.callbacks = Append(@, [cb |-> "onUnexpectedResponse",
                                    status |-> output.response.status]),
           !.result = [finished |-> FALSE, hadError |-> TRUE],
           !.cpc = "returned"]
    /\ UNCHANGED <<input, streamVars, reviewVars, bulkVars>>

\* performTranslations.ts 54-64: the reader of the response body is taken
OpenReader ==
    /\ output.cpc = "fetching"
    /\ output.response # Null
    /\ output.response.status = 200
    /\ output' = [output EXCEPT !.cpc = "reading"]
    /\ UNCHANGED <<input, streamVars, reviewVars, bulkVars>>

\* the bytes of the chunk take the place of the buffer
replaceChunk(buffer, value) == value

\* performTranslations.ts 73: buffer += decoder.decode(value, {stream: true})
appendChunk(buffer, value) == buffer \o value

RECURSIVE trimLine(_)
\* line.trim(): blanks at both ends go
trimLine(line) ==
    IF line # <<>> /\ Head(line) = " " THEN trimLine(Tail(line))
    ELSE IF line # <<>> /\ line[Len(line)] = " "
    THEN trimLine(SubSeq(line, 1, Len(line) - 1))
    ELSE line

\* performTranslations.ts 89-114: the callback of a parsed event and the flags
dispatch(state, parsed) ==
    CASE parsed.type = "applied" ->
             [state EXCEPT !.callbacks = Append(@, [cb |-> "onApplied",
                                                    locale |-> parsed.locale])]
      [] parsed.type = "done" ->
             [state EXCEPT !.callbacks = Append(@, [cb |-> "onDone"]),
                           !.finished = TRUE, !.stop = TRUE]
      [] parsed.type = "error" ->
             [state EXCEPT
                 !.callbacks = Append(@, [cb |-> "onError",
                                          message |-> IF parsed.message # <<>>
                                                      THEN parsed.message
                                                      ELSE <<"Translation failed.">>]),
                 !.hadError = TRUE, !.stop = TRUE]
      [] parsed.type = "progress" ->
             [state EXCEPT !.callbacks = Append(@, [cb |-> "onProgress",
                                                    completed |-> parsed.completed,
                                                    locale |-> parsed.locale,
                                                    total |-> parsed.total])]
      [] OTHER -> state

RECURSIVE drain(_)
\* performTranslations.ts 75-118: every complete line of the buffer is taken off it,
\* parsed and dispatched
drain(state) ==
    LET newlines == {i \in DOMAIN state.buffer : state.buffer[i] = "\n"}
        newlineIndex == CHOOSE i \in newlines : \A j \in newlines : i <= j
        line == trimLine(SubSeq(state.buffer, 1, newlineIndex - 1))
        rest == [state EXCEPT
                    !.buffer = SubSeq(state.buffer, newlineIndex + 1, Len(state.buffer))]
    IN IF newlines = {} THEN state
       ELSE IF line # <<>> /\ parseLine(line) # Null
       THEN drain(dispatch(rest, parseLine(line)))
       ELSE drain(rest)

\* the sizes of the next network chunk: one byte, MaxChunk bytes, or all bytes on the
\* way
ChunkSizes(wire) == {n \in {1, MaxChunk, Len(wire)} : n <= Len(wire)}

\* performTranslations.ts 66-121: a chunk is read, added to the buffer and the
\* complete lines are handled; the call returns when an event has set stop. Every
\* stream of the handler ends with the line of a 'done' or an 'error', so the reader
\* sets stop before it could report the end of the stream (69-71).
ReadChunk ==
    /\ output.cpc = "reading"
    /\ output.wire # <<>>
    /\ \E n \in ChunkSizes(output.wire) :
         LET value == SubSeq(output.wire, 1, n)
             after == drain([output EXCEPT
                                !.buffer = appendChunk(@, value),
                                !.wire = SubSeq(@, n + 1, Len(@))])
         IN output' = IF after.stop
                      THEN [after EXCEPT
                               !.result = [finished |-> after.finished,
                                           hadError |-> after.hadError],
                               !.cpc = "returned"]
                      ELSE after
    /\ UNCHANGED <<input, streamVars, reviewVars, bulkVars>>

EndpointNext ==
    \/ ClientStart
    \/ HandleRequest
    \/ Enqueue
    \/ CatchException
    \/ CloseStream
    \/ UnexpectedResponse
    \/ OpenReader
    \/ ReadChunk

EndpointSpec == EndpointInit /\ [][EndpointNext]_vars

\* a JSON string that is not empty
NonEmptyString(value) == value.k = "str" /\ value.s # ""

\* an item with a string path, a string text and a boolean lexical
ValidItem(value) ==
    /\ value.k = "obj"
    /\ Get(value, "path").k = "str"
    /\ Get(value, "text").k = "str"
    /\ Get(value, "lexical").k = "bool"

\* a locale entry with a non-empty code, chunks that are arrays of items, and
\* overrides that are left out or an array of items
ValidEntry(entry) ==
    /\ entry.k = "obj"
    /\ NonEmptyString(Get(entry, "code"))
    /\ Get(entry, "chunks").k = "arr"
    /\ \A c \in DOMAIN Get(entry, "chunks").a :
          /\ Get(entry, "chunks").a[c].k = "arr"
          /\ \A i \in DOMAIN Get(entry, "chunks").a[c].a :
                ValidItem(Get(entry, "chunks").a[c].a[i])
    /\ \/ Get(entry, "overrides").k = "undef"
       \/ /\ Get(entry, "overrides").k = "arr"
          /\ \A i \in DOMAIN Get(entry, "overrides").a :
                ValidItem(Get(entry, "overrides").a[i])

\* a body that is no JSON object, or misses a non-empty from, collection or id, or
\* whose locales are no non-empty array of valid entries
Malformed(body) ==
    \/ body.k # "obj"
    \/ ~NonEmptyString(Get(body, "from"))
    \/ ~NonEmptyString(Get(body, "collection"))
    \/ ~(NonEmptyString(Get(body, "id")) \/ Get(body, "id").k = "num")
    \/ Get(body, "locales").k # "arr"
    \/ Get(body, "locales").a = <<>>
    \/ \E e \in DOMAIN Get(body, "locales").a : ~ValidEntry(Get(body, "locales").a[e])

\* C28: the translate endpoint answers a malformed body (from, collection or id
\* missing or empty; locales no non-empty array; a locale entry without non-empty code
\* or with invalid chunks or overrides) with a 400 JSON error response and creates no
\* stream: streamTranslations is never started, nothing is written and no
\* document-store or translation call is made.
C28_MalformedBodyRejected ==
    Malformed(input.body) =>
        /\ output.pc \in {"idle", "rejected"}
        /\ output.response # Null =>
              /\ output.response.status = 400
              /\ output.response.json.type = "error"
        /\ ~output.started
        /\ output.parsed = Null
        /\ output.lines = <<>> /\ output.wire = <<>> /\ ~output.closed
        /\ output.storeCalls = 0

\* C28 witness: the body whose second locale entry has an empty code was answered
\* with status 400 and the client has returned
C28_Witness ==
    /\ input.body = With(GoodBody, "locales",
                         Arr(<<GoodEntry, With(GoodEntry, "code", Str(""))>>))
    /\ output.pc = "rejected"
    /\ output.response.status = 400
    /\ output.cpc = "returned"
    /\ ~output.started

\* the events of a list up to and including its first 'error' or 'done'
UpToTerminal(list) ==
    LET ends == {i \in DOMAIN list : list[i].type \in {"error", "done"}}
    IN IF ends = {} THEN list
       ELSE SubSeq(list, 1, CHOOSE i \in ends : \A j \in ends : i <= j)

\* the events the stream of a request has to carry: the executor's events up to the
\* first 'error' or 'done', or all of them and the 'error' of its exception
DueEvents ==
    LET before == UpToTerminal(input.run.events)
    IN IF before # input.run.events \/ input.run.end = "return" THEN before
       ELSE Append(before, errorEvent(IF input.run.end = "throw" THEN input.run.message
                                      ELSE <<"Failed to sync translations">>))

\* a line of the stream holds the JSON text of the event and ends with the only
\* newline it holds
IsLineOf(line, event) ==
    /\ parseLine(SubSeq(line, 1, Len(line) - 1)) = event
    /\ {i \in DOMAIN line : line[i] = "\n"} = {Len(line)}

\* C29: the response stream of the translate endpoint carries the executor's events in
\* order, one JSON line each, up to and including the first 'error' or 'done' and
\* nothing after it; an exception thrown while the events are generated becomes a
\* single 'error' line; and the stream is closed in every case: the handler goes on
\* until it has closed the stream.
C29_StreamCarriesEventsAndCloses ==
    /\ Len(output.lines) <= Len(DueEvents)
    /\ \A i \in DOMAIN output.lines : IsLineOf(output.lines[i], DueEvents[i])
    /\ output.pc = "ended" <=> output.closed
    /\ output.closed => Len(output.lines) = Len(DueEvents)
    /\ output.pc \in {"streaming", "closing"} =>
          ENABLED (Enqueue \/ CatchException \/ CloseStream)

\* C29 witness: the executor threw after a progress event; the stream holds the
\* progress line and the error line of the exception, and is closed
C29_Witness ==
    /\ input.run.end = "throw"
    /\ output.closed
    /\ Len(output.lines) = 2
    /\ IsLineOf(output.lines[2], errorEvent(<<"E">>))

\* the callback an event of the stream is due
CallbackOf(event) ==
    CASE event.type = "progress" ->
             [cb |-> "onProgress", completed |-> event.completed,
              locale |-> event.locale, total |-> event.total]
      [] event.type = "applied" -> [cb |-> "onApplied", locale |-> event.locale]
      [] event.type = "done" -> [cb |-> "onDone"]
      [] event.type = "error" ->
             [cb |-> "onError",
              message |-> IF event.message = <<>> THEN <<"Translation failed.">>
                          ELSE event.message]

\* the callbacks that end a call
TerminalCallbacks == {"onDone", "onError", "onUnexpectedResponse"}

\* C30: performTranslations delivers to its callbacks exactly the events the server
\* emitted, in order, up to and including the first 'done' or 'error', however the
\* bytes of the stream are split into chunks; it returns finished = true only if a
\* 'done' was received and hadError = true only if an 'error' was received or the
\* response failed, never both, and it makes no callback after the terminal one.
C30_ClientDeliversEmittedEvents ==
    LET due == UpToTerminal(output.emitted)
        made == Tail(output.callbacks)
        called(cb) == \E c \in DOMAIN output.callbacks : output.callbacks[c].cb = cb
    IN /\ output.callbacks # <<>> => output.callbacks[1] = [cb |-> "onStart"]
       /\ (output.cpc = "reading" \/ (output.cpc = "returned" /\ output.response.status = 200)) =>
             IsPrefix(made, [i \in DOMAIN due |-> CallbackOf(due[i])])
       /\ (output.cpc = "returned" /\ output.response.status = 200) =>
             /\ made = [i \in DOMAIN DueEvents |-> CallbackOf(DueEvents[i])]
             /\ output.result.finished <=> called("onDone")
             /\ output.result.hadError <=> called("onError")
       /\ (output.cpc = "returned" /\ output.response.status # 200) =>
             /\ output.callbacks = <<[cb |-> "onStart"],
                                     [cb |-> "onUnexpectedResponse", status |-> 400]>>
             /\ output.result = [finished |-> FALSE, hadError |-> TRUE]
       /\ output.result # Null => ~(output.result.finished /\ output.result.hadError)
       /\ \A c \in DOMAIN output.callbacks :
             output.callbacks[c].cb \in TerminalCallbacks => c = Len(output.callbacks)
       /\ output.cpc # "returned" => output.result = Null

\* C30 witness: the client has delivered the first two events of a stream and holds
\* the beginning of the next line, cut by the end of a chunk, in its buffer
C30_Witness ==
    /\ output.cpc = "reading"
    /\ Len(output.callbacks) = 3
    /\ output.callbacks[3].cb = "onProgress"
    /\ output.buffer # <<>>
    /\ \A i \in DOMAIN output.buffer : output.buffer[i] # "\n"
    /\ Len(output.emitted) = 4

----------------------------------------------------------------------------
(* What streamTranslations writes: the executor of stream.ts 95-292 started *)
(* on requests whose fragments and overrides meet on the same paths, whose  *)
(* batches mix plain and rich-text fragments, and whose paths may start     *)
(* with an array position.                                                  *)

OverrideNumeric == [path |-> <<"0">>, text |-> "Nul", lexical |-> FALSE]

\* The chunks and overrides of the locale entries
WriteSelections ==
    { [chunks |-> <<<<ItemTitle, ItemBody, ItemHero>>>>, overrides |-> <<OverrideTitle>>],
      [chunks |-> <<<<ItemBody>>, <<ItemCta>>>>, overrides |-> <<>>],
      [chunks |-> <<<<ItemNumeric>>>>, overrides |-> <<>>],
      [chunks |-> <<<<ItemNumeric, ItemTitle>>>>, overrides |-> <<>>],
      [chunks |-> <<<<>>>>, overrides |-> <<OverrideBody, OverrideNumeric>>],
      [chunks |-> <<<<ItemTitle>>>>, overrides |-> <<OverrideBody>>] }

\* The selections of a second locale entry
SecondSelections ==
    { [chunks |-> <<<<ItemTitle, ItemBody, ItemHero>>>>, overrides |-> <<OverrideTitle>>],
      [chunks |-> <<<<ItemBody>>, <<ItemCta>>>>, overrides |-> <<>>] }

EntryOf(code, selection) ==
    [code |-> code, chunks |-> selection.chunks, overrides |-> selection.overrides]

\* input.locales: one entry for "nl", or that entry followed by one for "de"
WriteRequests ==
    { <<EntryOf("nl", s)>> : s \in WriteSelections }
    \cup { <<EntryOf("nl", s), EntryOf("de", t)>> : s \in WriteSelections, t \in SecondSelections }

WriteInit ==
    /\ request \in WriteRequests
    /\ translator \in {"mock", "openai"}
    /\ pc = "start"
    /\ li = 0
    /\ ci = 0
    /\ oi = 0
    /\ baseDoc = Null
    /\ localeData = Obj(EmptyRecord)
    /\ completed = 0
    /\ events = <<>>
    /\ calls = <<>>
    /\ wlog = <<>>
    /\ ReviewIdle
    /\ CallIdle
    /\ BulkIdle

WriteSpec == WriteInit /\ [][Next]_vars

\* the calls of an operation issued for the locale entry at position entry
CallsOf(op, entry) == {c \in DOMAIN calls : calls[c].op = op /\ calls[c].entry = entry}

\* the progress events of an entry that count one of its overrides
OverrideProgress(entry) ==
    {i \in DOMAIN events : /\ events[i].type = "progress"
                           /\ events[i].entry = entry
                           /\ events[i].completed > countItems(request[entry].chunks)}

\* C31: every update of a locale entry carries, at the path of each plain-text override
\* of that entry, the override's text unchanged, also where a translated fragment of
\* the entry wrote the same path; no translation call of the entry holds an override's
\* text; and every translation call of the entry was issued before the entry's first
\* override was written
C31_OverridesVerbatim ==
    \A e \in DOMAIN request : \A o \in DOMAIN request[e].overrides :
        LET override == request[e].overrides[o]
        IN /\ \A c \in CallsOf("update", e) :
                ~override.lexical =>
                    getValueAtPath(calls[c].data, override.path) = Str(override.text)
           /\ \A c \in CallsOf("translate", e) :
                /\ \A t \in DOMAIN calls[c].texts : calls[c].texts[t] # override.text
                /\ \A i \in OverrideProgress(e) : i > calls[c].at

\* an update was issued for an entry whose fragment and override both address `title`:
\* the fragment's translation arrived, the override's text is what the update carries
C31_Witness ==
    \E e \in DOMAIN request :
        /\ \E k \in DOMAIN request[e].chunks[1] : request[e].chunks[1][k] = ItemTitle
        /\ \E o \in DOMAIN request[e].overrides : request[e].overrides[o] = OverrideTitle
        /\ \E c \in CallsOf("translate", e) :
              /\ calls[c].status = "ok"
              /\ calls[c].result[1] = Translated("Hello", request[e].code)
        /\ \E c \in CallsOf("update", e) :
              /\ calls[c].status = "ok"
              /\ Get(calls[c].data, "title") = Str("Hallo")

\* the error events of an entry that report the shape of its working copy
ShapeErrors(entry) ==
    {i \in DOMAIN events : /\ events[i].type = "error"
                           /\ events[i].entry = entry
                           /\ events[i].message = "Translated data has unexpected shape."}

\* C32: the data of every payload.update call is a plain object; a run that returned
\* while the working copy of its current locale entry was not a plain object ended
\* with an 'error' event and issued no update for that entry; and a shape error of an
\* entry is the last event of the run, with no update issued for the entry
C32_UpdateOnlyWithPlainObject ==
    /\ \A c \in DOMAIN calls : calls[c].op = "update" => IsPlainObject(calls[c].data)
    /\ pc \in {"update", "awaitUpdate", "applied"} => IsPlainObject(localeData)
    /\ (pc = "returned" /\ ~IsPlainObject(localeData)) =>
          /\ Last(events).type = "error"
          /\ CallsOf("update", li) = {}
    /\ \A e \in DOMAIN request : \A i \in ShapeErrors(e) :
          /\ i = Len(events)
          /\ pc = "returned"
          /\ CallsOf("update", e) = {}

\* the working copy became an array through a path whose first segment is a number;
\* the run ended with the shape error after the entry's last progress event
C32_Witness ==
    /\ pc = "returned"
    /\ localeData.k = "arr"
    /\ ShapeErrors(li) # {}
    /\ \E i \in DOMAIN events : events[i].type = "progress" /\ events[i].entry = li
    /\ \E k \in DOMAIN request[li].chunks[1] : request[li].chunks[1][k] = ItemNumeric

\* the paths the fragments and the overrides of a locale entry address
WrittenPaths(entry) ==
    UNION {{entry.chunks[c][k].path : k \in DOMAIN entry.chunks[c]} : c \in DOMAIN entry.chunks}
    \cup {entry.overrides[o].path : o \in DOMAIN entry.overrides}

\* the keys of an object, or the positions of an array written as path segments
SegmentsOf(value) ==
    CASE value.k = "obj" -> DOMAIN value.f
      [] value.k = "arr" -> {IndexSegments[p] : p \in DOMAIN value.a \cap DOMAIN IndexSegments}
      [] OTHER -> {}

\* the member of an object or an array a path segment names, Undef when there is none
Member(value, segment) ==
    CASE value.k = "obj" -> Get(value, segment)
      [] value.k = "arr" /\ IsIndex(segment) /\ NumberOf(segment) < Len(value.a) ->
            value.a[NumberOf(segment) + 1]
      [] OTHER -> Undef

RECURSIVE SameExcept(_, _, _)
\* new is old with nothing changed but the values at paths (and what had to be created
\* to hold them), and a blockType added to an element that had none
SameExcept(old, new, paths) ==
    IF <<>> \in paths THEN TRUE
    ELSE IF paths = {} THEN old = new
    ELSE IF old.k \notin {"obj", "arr"} THEN TRUE
    ELSE /\ new.k = old.k
         /\ \A segment \in SegmentsOf(old) \cup SegmentsOf(new) :
               \/ SameExcept(Member(old, segment), Member(new, segment),
                             {Tail(p) : p \in {q \in paths : Head(q) = segment}})
               \/ /\ segment = "blockType"
                  /\ Member(old, segment) = Undef

\* the document findByID returned for a locale entry, Undef when the load threw or the
\* entry was skipped
LoadedFor(entry) ==
    calls[CHOOSE c \in CallsOf("findByID", entry) : TRUE].data

\* C33: the data of every update of a locale entry is the document loaded for the entry
\* without id, _id, createdAt and updatedAt and with nothing changed but the values at
\* the paths of the entry's fragments and overrides (and a carried-over blockType);
\* nothing was deleted from the loaded document, and the source document is as loaded
C33_OnlyAddressedPathsChange ==
    /\ \A e \in DOMAIN request : \A c \in CallsOf("update", e) :
          /\ \A i \in DOMAIN IdentityFields : Get(calls[c].data, IdentityFields[i]) = Undef
          /\ SameExcept(StripIdentity(LoadedFor(e)), calls[c].data, WrittenPaths(request[e]))
    /\ \A c \in DOMAIN calls : calls[c].op = "findByID" => calls[c].result = <<>>
    /\ baseDoc \in {Null, BaseDocument}

\* the translation calls that returned a list of the expected length
AppliedCalls ==
    {c \in DOMAIN calls : /\ calls[c].op = "translate"
                          /\ calls[c].status = "ok"
                          /\ Len(calls[c].result) = Len(calls[c].texts)}

\* the translation call whose results the writes of wlog come from
LastApplied == CHOOSE c \in AppliedCalls : \A d \in AppliedCalls : d <= c

\* the chunk a translation call was issued for: the calls of an entry follow its chunks
ChunkOfCall(c) ==
    request[calls[c].entry].chunks[Cardinality({d \in CallsOf("translate", calls[c].entry) : d <= c})]

\* wlog holds the writes of a chunk
ChunkWritten == wlog # <<>> /\ "slice" \in DOMAIN wlog[1]

\* C34: after a batch was written, fragment w of the batch was applied to exactly the
\* translated segments at the positions its own segments have in the texts sent (one
\* for a plain fragment, one per text leaf for a rich-text fragment of a source value
\* with text leaves), the slices in batch order make up the whole answer, and the
\* cursor behind the last fragment is the number of translated segments, so the
\* condition of the 'cursor mismatch' warning is false
C34_SlicesFollowSegments ==
    ChunkWritten =>
        LET c == LastApplied
            chunk == ChunkOfCall(c)
            plans == PlansOf(chunk, baseDoc)
            off(w) == SumLen([i \in 1..(w - 1) |-> plans[i].segments])
            count(w) == Len(plans[w].segments)
        IN /\ Len(wlog) = Len(chunk)
           /\ \A w \in DOMAIN wlog :
                /\ wlog[w].path = chunk[w].path
                /\ SubSeq(calls[c].texts, off(w) + 1, off(w) + count(w)) = plans[w].segments
                /\ wlog[w].slice = SubSeq(calls[c].result, off(w) + 1, off(w) + count(w))
                /\ ~chunk[w].lexical => Len(wlog[w].slice) = 1
                /\ (chunk[w].lexical /\ baseDoc # Null) =>
                      Len(wlog[w].slice) =
                         Len(collectLexicalTextNodes(getValueAtPath(baseDoc, chunk[w].path)))
           /\ Flatten([w \in DOMAIN wlog |-> wlog[w].slice]) = calls[c].result
           /\ Last(wlog).cursor = Len(calls[c].result)
           /\ ~CursorMismatch(Last(wlog).cursor, calls[c].result)

\* a batch of a plain, a rich-text and a plain fragment was written from four
\* translated segments: the rich-text fragment took the second and the third
C34_Witness ==
    /\ ChunkWritten
    /\ Len(wlog) = 3
    /\ Len(calls[LastApplied].result) = 4
    /\ wlog[1].slice = SubSeq(calls[LastApplied].result, 1, 1)
    /\ wlog[2].slice = SubSeq(calls[LastApplied].result, 2, 3)
    /\ wlog[3].slice = SubSeq(calls[LastApplied].result, 4, 4)
    /\ wlog[3].cursor = 4

RECURSIVE StringsOf(_)
\* the strings a value holds
StringsOf(value) ==
    CASE value.k = "str" -> {value.s}
      [] value.k = "obj" -> UNION {StringsOf(value.f[key]) : key \in DOMAIN value.f}
      [] value.k = "arr" -> UNION {StringsOf(value.a[p]) : p \in DOMAIN value.a}
      [] OTHER -> {}

\* the translated segments the translator returned for a locale code (an answer of
\* the provider with another number of entries is replaced by the texts sent and holds
\* no translation)
TranslatedFor(code) ==
    UNION {{calls[c].result[t] : t \in DOMAIN calls[c].result} :
              c \in {d \in AppliedCalls : /\ calls[d].locale = code
                                          /\ calls[d].raw \in {-1, Len(calls[d].texts)}}}

\* the translation calls issued so far, each with its chunk
TranslateCalls == {c \in DOMAIN calls : calls[c].op = "translate"}

\* C38: the source document is what findByID returned for the source locale in every
\* state of the run; translation calls issued for equal chunks carry equal texts,
\* whatever the locale and whatever was processed before, and the texts of a call are
\* those of the chunk's plans over the loaded source document; and no segment
\* translated for one locale code is held by the data of an update of another code
C38_SourceDocumentUntouched ==
    /\ baseDoc \in {Null, BaseDocument}
    /\ \A c \in TranslateCalls :
          /\ calls[c].texts \in {TextsOf(PlansOf(ChunkOfCall(c), Null)),
                                 TextsOf(PlansOf(ChunkOfCall(c), BaseDocument))}
          /\ \A d \in TranslateCalls :
                ChunkOfCall(c) = ChunkOfCall(d) => calls[c].texts = calls[d].texts
    /\ \A u \in DOMAIN calls : calls[u].op = "update" =>
          \A e \in DOMAIN request :
              request[e].code # calls[u].locale =>
                  StringsOf(calls[u].data) \cap TranslatedFor(request[e].code) = {}

\* two locales were processed with the rich-text fragment `body`: the first locale's
\* translation was written and saved, and the second locale's call carries the texts
\* of the source document's leaves again
C38_Witness ==
    /\ Len(request) = 2
    /\ baseDoc = BaseDocument
    /\ \E u \in CallsOf("update", 1) :
          /\ calls[u].status = "ok"
          /\ collectLexicalTextNodes(Get(calls[u].data, "body")) = <<"nl:One", "nl:Two">>
    /\ \E c \in CallsOf("translate", 2) :
          /\ calls[c].texts = <<"One", "Two">>
          /\ calls[c].result = <<"de:One", "de:Two">>

----------------------------------------------------------------------------
(* Two runs of streamTranslations on the locale document of one (document,  *)
(* locale): each run loads the document (stream.ts 141-166), writes its own  *)
(* working copy (168-260) and updates the store with it (267-282).  The runs *)
(* interleave at their awaits; the state is kept in `output`, the store's    *)
(* document and the two requests in `input`.                                 *)

\* The selections of a run: a field, a field of a block, a field the locale document
\* does not have yet, and fragments with an override
RaceSelections ==
    { [chunks |-> <<<<ItemTitle>>>>, overrides |-> <<>>],
      [chunks |-> <<<<ItemHero>>>>, overrides |-> <<>>],
      [chunks |-> <<<<>>>>, overrides |-> <<OverrideBody>>],
      [chunks |-> <<<<ItemTitle>>, <<ItemCta>>>>, overrides |-> <<OverrideTitle>>] }

\* What payload.update does with the fields its data does not name is the store's
\* business: it keeps them, or it keeps the identity and timestamp fields only
StoreModes == {"merge", "replace"}

\* the store after update({ data }) succeeded
StoredAfterUpdate(mode, storedDoc, data) ==
    LET kept == IF mode = "merge" THEN DOMAIN storedDoc.f
                ELSE {key \in DOMAIN storedDoc.f :
                          \E k \in DOMAIN IdentityFields : IdentityFields[k] = key}
    IN Obj([key \in kept \cup DOMAIN data.f |->
               IF key \in DOMAIN data.f THEN data.f[key] ELSE storedDoc.f[key]])

RECURSIVE AfterChunks(_, _, _, _, _)
\* stream.ts 168-249: the working copy after the chunks from position index on, each
\* answered by a translation of the right length
AfterChunks(base, data, chunks, locale, index) ==
    IF index > Len(chunks) THEN data
    ELSE LET texts == TextsOf(PlansOf(chunks[index], base))
             translated == [t \in DOMAIN texts |-> Translated(texts[t], locale)]
             writes == ChunkWrites(base, data, chunks[index], translated, 1, 0)
         IN AfterChunks(base, IF writes = <<>> THEN data ELSE Last(writes).after,
                        chunks, locale, index + 1)

RECURSIVE AfterOverrides(_, _, _, _, _)
\* stream.ts 251-260: the working copy after the overrides from position index on
AfterOverrides(base, data, overrides, locale, index) ==
    IF index > Len(overrides) THEN data
    ELSE AfterOverrides(base,
             Write(base, data, overrides[index].path,
                   overrideValue(overrides[index], locale)).after,
             overrides, locale, index + 1)

\* stream.ts 155-260: the working copy of a run that loaded loadedDoc
WorkingCopyOf(loadedDoc, entry) ==
    AfterOverrides(BaseDocument,
        AfterChunks(BaseDocument, StripIdentity(loadedDoc), entry.chunks, entry.code, 1),
        entry.overrides, entry.code, 1)

\* an update that reads the document again and keeps what another writer changed in
\* the fields this run left as it loaded them
updateDataRebased(loadedDoc, workingCopy, storedDoc) ==
    Obj([key \in DOMAIN workingCopy.f |->
            IF /\ key \in DOMAIN loadedDoc.f
               /\ key \in DOMAIN storedDoc.f
               /\ workingCopy.f[key] = loadedDoc.f[key]
            THEN storedDoc.f[key] ELSE workingCopy.f[key]])

\* stream.ts 267-274: data: localeData, whatever the store holds by now
updateData(loadedDoc, workingCopy, storedDoc) == workingCopy

\* a run before it loads the locale document
RaceRun == [pc |-> "load", loaded |-> Null, data |-> Null]

\* Two requests for the same document and locale are being handled
RaceInit ==
    /\ StreamIdle
    /\ ReviewIdle
    /\ BulkIdle
    /\ input \in { [doc |-> d, mode |-> m,
                    entries |-> <<EntryOf("nl", a), EntryOf("nl", b)>>] :
                      d \in LocaleDocuments, m \in StoreModes,
                      a \in RaceSelections, b \in RaceSelections }
    /\ output = [store |-> input.doc, runs |-> <<RaceRun, RaceRun>>, log |-> <<>>]

\* stream.ts 141-166: a run loads the locale document and clones it
RaceLoad ==
    /\ \E r \in DOMAIN output.runs :
         /\ output.runs[r].pc = "load"
         /\ output' = [output EXCEPT
                !.runs[r] = [pc |-> "translate", loaded |-> output.store,
                             data |-> StripIdentity(output.store)],
                !.log = Append(@, [op |-> "findByID", run |-> r, ok |-> TRUE,
                                   data |-> output.store])]
    /\ UNCHANGED <<input, streamVars, reviewVars, bulkVars>>

\* stream.ts 168-265: the chunks are translated and written with the overrides into
\* the run's working copy; a failing translation or an unexpected shape ends the run
RaceWrite ==
    /\ \E r \in DOMAIN output.runs, translatedAll \in BOOLEAN :
         /\ output.runs[r].pc = "translate"
         /\ LET after == WorkingCopyOf(output.runs[r].loaded, input.entries[r])
            IN output' = [output EXCEPT
                   !.runs[r].pc = IF translatedAll /\ ~hasUnexpectedShape(after)
                                  THEN "update" ELSE "failed",
                   !.runs[r].data = IF translatedAll THEN after ELSE @]
    /\ UNCHANGED <<input, streamVars, reviewVars, bulkVars>>

\* the update of run r
RaceUpdateOf(r) ==
    /\ output.runs[r].pc = "update"
    /\ \E ok \in BOOLEAN :
         LET data == updateData(output.runs[r].loaded, output.runs[r].data, output.store)
         IN output' = [output EXCEPT
                !.runs[r].pc = IF ok THEN "done" ELSE "failed",
                !.store = IF ok THEN StoredAfterUpdate(input.mode, @, data) ELSE @,
                !.log = Append(@, [op |-> "update", run |-> r, ok |-> ok, data |-> data])]
    /\ UNCHANGED <<input, streamVars, reviewVars, bulkVars>>

\* stream.ts 267-282: a run updates the locale document with its working copy; the
\* update succeeds or throws
RaceUpdate == \E r \in DOMAIN output.runs : RaceUpdateOf(r)

RaceNext ==
    \/ RaceLoad
    \/ RaceWrite
    \/ RaceUpdate

RaceSpec == RaceInit /\ [][RaceNext]_vars

\* the positions of the store calls of a kind a run made
RaceCalls(op, r) ==
    {c \in DOMAIN output.log : output.log[c].op = op /\ output.log[c].run = r}

\* the positions of the updates that succeeded
RaceStored == {c \in DOMAIN output.log : output.log[c].op = "update" /\ output.log[c].ok}

\* both runs loaded the locale document before either updated it
BothLoadedFirst ==
    \A l \in DOMAIN output.log, u \in DOMAIN output.log :
        output.log[l].op = "findByID" /\ output.log[u].op = "update" => l < u

\* a top-level value of a document, Undef for a field it does not have
FieldOf(doc, key) == IF key \in DOMAIN doc.f THEN doc.f[key] ELSE Undef

====
